---- MODULE Spec2Model ----
(***************************************************************************)
(* State-machine model of the real-time financial event core of the       *)
(* finance assistant: the budgets table and the operations that write it  *)
(* (createBudget, the suggest-budget step of ocr-process), the            *)
(* TransactionPipeline (transports, validation, dispatch, evaluation) and *)
(* its anomaly detector.                                                  *)
(*                                                                         *)
(* The specifications share the variables:                                *)
(*   SpecBudget     budget writers running concurrently against the store *)
(*   SpecPipe       one TransactionPipeline under either transport        *)
(*   SpecSse        the bridged stream and every message it may carry     *)
(*   SpecScenarioA  the pipeline over scenario A's stored history         *)
(*   SpecAnomaly    detectAnomaly applied to bounded samples              *)
(*   SpecBudgetStatus  checkBudgetStatus applied to stored months          *)
(*   SpecScenarioB  the pipeline over scenario B's budget and spending     *)
(*   SpecRecentAlerts  the alerts RealtimeProvider keeps                   *)
(*   SpecListeners  the pipeline's listener Sets during dispatch           *)
(*   SpecOcr        runs of ocr-process with failing steps                 *)
(*   SpecChat       runs of gemini-chat                                    *)
(*   SpecChatPipe   one ChatPipeline and its event streams                 *)
(*   SpecServices   the external calls of ocr-process and gemini-chat      *)
(*   SpecDocuments  the DocumentProcessingPipeline over document updates   *)
(*   SpecCreateBudget  createBudget with failing queries                   *)
(*   SpecSend       the Chat page's handleSend                             *)
(*   SpecManager    a RealtimeProcessingManager and the calls made on it   *)
(*   SpecProvider   RealtimeProvider over changes of the user              *)
(*   SpecPage       the Transactions page: load and deliveries             *)
(* Amounts are DECIMAL(12, 2) columns: the model keeps them as integers,  *)
(* in hundredths of a rupee.  detectAnomaly reads them into Numbers and   *)
(* computes in binary64 floating point, which the model does bit for bit. *)
(* A record lists its fields in the order TLC keeps them in, which is the *)
(* order the names first appear in the module.                            *)
(***************************************************************************)
EXTENDS Integers, Sequences, FiniteSets, TLC

VARIABLES
    budgets,      \* table public.budgets: sequence of rows, in created_at order
    income,       \* table public.income_records, summed per owner
    bproc,        \* the budget writers' positions (one record per client)
    kafkaSseUrl,  \* import.meta.env.VITE_KAFKA_TRANSACTIONS_SSE_URL is set
    channel,      \* TransactionPipeline.channel (0: undefined/null, else a transport id)
    eventSource,  \* TransactionPipeline.eventSource (0: null, else a transport id)
    transports,   \* every transport connection created so far: [kind, open, inbox]
    txStore,      \* table public.transactions: sequence of rows
    evals,        \* handleIncomingTransaction calls suspended at an await
    delivered,    \* calls of emitTransaction, in order: what every listener saw
    anomalies,    \* calls of emitAnomaly, in order
    alerts,       \* calls of emitBudgetAlert, in order
    received,     \* number of events the instance's transports have handed over
    lastCall,     \* the instance's last public call and the transport operations it made
    lastMsg,      \* the last message the bridged stream handed to onmessage
    now,          \* the wall-clock month, new Date().toISOString().slice(0, 7)
    result,       \* what the evaluations returned, latest first (SpecAnomaly, SpecBudgetStatus)
    recentAlerts, \* RealtimeProvider's recentAlerts state
    listeners,    \* transactionListeners, anomalyListeners, budgetAlertListeners: the Sets' entries
    dispatch,     \* the emit call in progress, or the last one
    calls,        \* the listener invocations, in order
    removed,      \* the entries the disposers have deleted
    ocrRuns,      \* the last run of ocr-process of each client, as it ended
    chat,         \* the run of gemini-chat in progress, and the runs that ended
    chatHistory,  \* table public.chat_history: sequence of rows
    chatPipe,     \* the ChatPipeline: its eventSource field and the EventSources it created
    chatCalls,    \* the callbacks and listeners the ChatPipeline invoked, in order
    extRuns,      \* the requests ocr-process or gemini-chat served: their external calls
    documents,    \* table public.documents, its change feed, and the onDocumentProcessed calls
    budgetsBefore, \* the budgets as the last createBudget call found them
    chatPage,     \* the Chat page: sending, the messages sent, the run of each request
    manager,      \* the RealtimeProcessingManager: its pipelines and their channels
    provider,     \* RealtimeProvider: the user, its lists, its managers' evaluations
    txPage        \* the Transactions page: its list, its load, the rows and deliveries

vars == <<budgets, income, bproc, kafkaSseUrl, channel, eventSource, transports,
          txStore, evals, delivered, anomalies, alerts, received, lastCall,
          lastMsg, now, result, recentAlerts, listeners, dispatch, calls, removed,
          ocrRuns, chat, chatHistory, chatPipe, chatCalls, extRuns, documents,
          budgetsBefore, chatPage, manager, provider, txPage>>

budgetVars == <<budgets, income, bproc, ocrRuns>>
pipeVars == <<kafkaSseUrl, channel, eventSource, transports, evals, delivered,
              anomalies, alerts, received, lastCall, lastMsg, now>>
\* the state of the pages and of the other pipelines
uiVars == <<chatPipe, chatCalls, extRuns, documents, budgetsBefore, chatPage, manager,
            provider, txPage>>
\* the state of the application around the pipeline and the budget writers
appVars == <<recentAlerts, listeners, dispatch, calls, removed, chat, chatHistory, uiVars>>

\* no chat request was made yet
NoChat == [pc |-> "idle", run |-> 0, fullResponse |-> FALSE, ended |-> <<>>]

\* no request was served yet
NoRuns == [service |-> "", log |-> <<>>]

\* the uploaded documents, not yet processed, and a subscribed DocumentProcessingPipeline
DocumentIds == {"d1", "d2"}
NoDocuments == [rows |-> [d \in DocumentIds |-> FALSE], feed |-> <<>>, called |-> <<>>, updates |-> 0]

\* createBudget was not called yet
NoCall == [rows |-> <<>>, failed |-> FALSE]

\* the Chat page after its history has loaded
NewChatPage == [pc |-> "idle", sending |-> FALSE, sent |-> 0, runs |-> <<>>]

\* the pipelines of a manager that open a change-feed channel, in startAll's order
Pipelines == <<"transaction", "budget", "document", "notification", "analytics">>
PipelineNames == {Pipelines[i] : i \in DOMAIN Pipelines}

\* a RealtimeProcessingManager right after its constructor (the bridged URL not set)
NewManager ==
    [channel |-> [p \in PipelineNames |-> 0],
     calls |-> 0,
     exists |-> {"transaction", "budget", "document"},
     open |-> [p \in PipelineNames |-> {}], last |-> "new"]

\* RealtimeProvider as mounted, nobody signed in ("")
NewProvider == [received |-> 0, recentAlerts |-> <<>>, user |-> "", subscribed |-> "",
                recentAnomalies |-> <<>>, pending |-> {}, changes |-> 0]

\* the Transactions page as mounted: the list empty, the load not yet run, the
\* listener registered
NewTxPage == [delivered |-> {}, feed |-> <<>>, transactions |-> <<>>, load |-> "sent",
              data |-> <<>>, stored |-> <<>>]

\* a ChatPipeline right after its constructor: eventSource is null (0)
NewChatPipe == [eventSource |-> 0, open |-> {}, made |-> 0]

\* the signals of a TransactionPipeline
Signals == {"transaction", "anomaly", "budgetAlert"}

\* no emit call was made yet
NoDispatch == [last |-> 0, kind |-> "", event |-> 0, atStart |-> {}, gone |-> {}, done |-> TRUE]

(***************************************************************************)
(* Bounds of the model.                                                    *)
(***************************************************************************)
NumClients == 2
MaxBudgets == 3

Users == {"u1", "u2"}
Clients == 1..NumClients

(***************************************************************************)
(* Budgets: createBudget (db/api) and the suggest-budget step of the      *)
(* ocr-process function.                                                   *)
(***************************************************************************)
Categories == {"groceries", "transport"}

\* the allocations a budget form or a suggestion carries
BudgetAllocs ==
    {[groceries |-> 100000, transport |-> 0], [groceries |-> 0, transport |-> 50000]}

BudgetRow(u, alloc) ==
    [groceries |-> alloc.groceries, transport |-> alloc.transport, user_id |-> u,
     is_active |-> TRUE, period |-> "monthly"]

\* .update({ is_active: false }).eq('user_id', u)
Deactivate(rows, u) ==
    [i \in DOMAIN rows |->
        IF rows[i].user_id = u THEN [rows[i] EXCEPT !.is_active = FALSE] ELSE rows[i]]

\* the rows .eq('user_id', u).eq('is_active', true) selects
ActiveRows(rows, u) ==
    {i \in DOMAIN rows : rows[i].user_id = u /\ rows[i].is_active}

\* .maybeSingle(): the row when exactly one matches; null (here 0) when none
\* matches, and an error with data null when several do
MaybeSingle(s) == IF Cardinality(s) = 1 THEN CHOOSE i \in s : TRUE ELSE 0

\* failed: a step of the run has failed; late: a step was made after a failed one
Idle == [pc |-> "idle", failed |-> FALSE, user_id |-> "u1", totalIncome |-> 0, late |-> FALSE]

\* createBudget, first await: deactivate the owner's budgets; an error is thrown
CreateBudgetDeactivate(c, u, ok) ==
    /\ bproc[c].pc = "idle"
    /\ Len(budgets) < MaxBudgets
    /\ IF ok
       THEN /\ budgets' = Deactivate(budgets, u)
            /\ bproc' = [bproc EXCEPT ![c] = [Idle EXCEPT !.pc = "cb_insert", !.user_id = u]]
       ELSE UNCHANGED <<budgets, bproc>>
    /\ UNCHANGED <<income, ocrRuns>>

\* createBudget, second await: insert the new row (is_active: true at both callers)
CreateBudgetInsert(c, alloc, ok) ==
    /\ bproc[c].pc = "cb_insert"
    /\ budgets' = IF ok THEN Append(budgets, BudgetRow(bproc[c].user_id, alloc)) ELSE budgets
    /\ bproc' = [bproc EXCEPT ![c] = Idle]
    /\ UNCHANGED <<income, ocrRuns>>

(***************************************************************************)
(* The ocr-process function.  A run keeps whether a step of it has failed  *)
(* and whether a step was made after a failed one; ocrRuns holds each      *)
(* client's last run as it ended, with the status of its response.         *)
(***************************************************************************)
NoRun == [failed |-> FALSE, late |-> FALSE, status |-> 0]

\* the run after one more step, which succeeded or not
Step(run, ok) == [run EXCEPT !.failed = @ \/ ~ok, !.late = @ \/ run.failed]

\* return new Response(.., { status }): the run is over
Respond(c, status, run) ==
    /\ ocrRuns' = [ocrRuns EXCEPT ![c] = [failed |-> run.failed, late |-> run.late, status |-> status]]
    /\ bproc' = [bproc EXCEPT ![c] = Idle]

\* the run goes on to its next await
GoOn(c, pc, run) ==
    /\ bproc' = [bproc EXCEPT ![c] = [run EXCEPT !.pc = pc]]
    /\ ocrRuns' = ocrRuns

\* the OCR call: it fails (the fetch rejects, or the reply is not ok), or it
\* returns no text, or a text
OcrExtract(c, u, outcome) ==
    /\ bproc[c].pc = "idle"
    /\ Len(budgets) < MaxBudgets
    /\ IF outcome = "error" THEN Respond(c, 500, Step(Idle, FALSE))
       ELSE IF outcome = "empty" THEN Respond(c, 400, Step(Idle, TRUE))
       ELSE GoOn(c, "ocr_text", Step([Idle EXCEPT !.user_id = u], TRUE))
    /\ UNCHANGED <<budgets, income>>

\* update the document with the text; the result is not looked at
OcrStoreText(c, ok) ==
    /\ bproc[c].pc = "ocr_text"
    /\ GoOn(c, "ocr_parse", Step(bproc[c], ok))
    /\ UNCHANGED <<budgets, income>>

\* the completion call that parses the text: it fails, or its reply holds no
\* transaction, or some
OcrParse(c, outcome) ==
    /\ bproc[c].pc = "ocr_parse"
    /\ IF outcome = "error"
       THEN Respond(c, 500, Step(bproc[c], FALSE))
       ELSE GoOn(c, IF outcome = "rows" THEN "ocr_rows" ELSE "ocr_mark", Step(bproc[c], TRUE))
    /\ UNCHANGED <<budgets, income>>

\* insert the transactions; the result is not looked at
OcrInsertTransactions(c, ok) ==
    /\ bproc[c].pc = "ocr_rows"
    /\ GoOn(c, "ocr_income", Step(bproc[c], ok))
    /\ UNCHANGED <<budgets, income>>

\* read the owner's income
OcrReadIncome(c) ==
    /\ bproc[c].pc = "ocr_income"
    /\ bproc' = [bproc EXCEPT ![c] =
          IF income[bproc[c].user_id] > 0
          THEN [Step(@, TRUE) EXCEPT !.pc = "ocr_check", !.totalIncome = income[bproc[c].user_id]]
          ELSE [Step(@, TRUE) EXCEPT !.pc = "ocr_mark"]]
    /\ UNCHANGED <<budgets, income, ocrRuns>>

\* select the active budget; the step goes on only when there is none
OcrCheckBudget(c) ==
    /\ bproc[c].pc = "ocr_check"
    /\ bproc' = [bproc EXCEPT ![c] =
          IF MaybeSingle(ActiveRows(budgets, bproc[c].user_id)) = 0
          THEN [Step(@, TRUE) EXCEPT !.pc = "ocr_generate"]
          ELSE [Step(@, TRUE) EXCEPT !.pc = "ocr_mark"]]
    /\ UNCHANGED <<budgets, income, ocrRuns>>

\* the completion call that suggests the budget: the fetch or the read of the
\* stream rejects ("error"), the reply is not ok ("refused"), it holds no JSON
\* object ("none"), or it holds one ("object")
OcrGenerate(c, outcome) ==
    /\ bproc[c].pc = "ocr_generate"
    /\ IF outcome = "error"
       THEN Respond(c, 500, Step(bproc[c], FALSE))
       ELSE GoOn(c, IF outcome = "object" THEN "ocr_insert" ELSE "ocr_mark",
                 Step(bproc[c], outcome # "refused"))
    /\ UNCHANGED <<budgets, income>>

\* insert the suggested budget, is_active: true; the result is not looked at
OcrInsertBudget(c, alloc, ok) ==
    /\ bproc[c].pc = "ocr_insert"
    /\ budgets' = IF ok THEN Append(budgets, BudgetRow(bproc[c].user_id, alloc)) ELSE budgets
    /\ GoOn(c, "ocr_mark", Step(bproc[c], ok))
    /\ UNCHANGED income

\* mark the document as processed, the result not looked at; the success response
OcrMarkProcessed(c, ok) ==
    /\ bproc[c].pc = "ocr_mark"
    /\ Respond(c, 200, Step(bproc[c], ok))
    /\ UNCHANGED <<budgets, income>>

(***************************************************************************)
(* JavaScript values, as far as isLikelyTransaction and the amount        *)
(* normalisation look at them: a type tag, a string and a number.         *)
(***************************************************************************)
Undefined == [s |-> "", t |-> "undefined", n |-> 0]
Null == [s |-> "", t |-> "null", n |-> 0]
Str(x) == [s |-> x, t |-> "string", n |-> 0]
Num(x) == [s |-> "", t |-> "number", n |-> x]
NaN == [s |-> "", t |-> "nan", n |-> 0]
Bool(b) == [s |-> IF b THEN "true" ELSE "false", t |-> "boolean", n |-> 0]

\* typeof
TypeOf(v) ==
    CASE v.t = "nan" -> "number"
      [] v.t = "null" -> "object"
      [] OTHER -> v.t

\* the amounts the pipeline's transactions carry in the model: 180, 220 and 300 rupees
Amounts == {18000, 22000, 30000}

\* the decimal numeral of a whole amount, as a JSON string carries it
Numeral(a) == ToString(a \div 100)

\* the strings Number() reads as a number: decimal numerals (those of the
\* model's amounts) and the empty string, which is 0; anything else is NaN
ToNumber(str) ==
    IF str = "" THEN Num(0)
    ELSE IF \E a \in Amounts : Numeral(a) = str
         THEN Num(CHOOSE a \in Amounts : Numeral(a) = str)
         ELSE NaN

\* the pipeline's owner (this.userId)
userId == "u1"

\* a Transaction as the pipeline passes it on
Tx(id, u, cat, amt, date) ==
    [user_id |-> u, id |-> id, category |-> cat, amount |-> amt, transaction_date |-> date]

NoFields == Tx(Undefined, Undefined, Undefined, Undefined, Undefined)

\* a parsed JSON value: its own type and fields, and its data and
\* transaction members (objects, or Undefined when absent)
Obj(f) == [t |-> "object", f |-> f]
NotObj(t) == [t |-> t, f |-> NoFields]
Raw(json, t, data, transaction, f) ==
    [data |-> data, t |-> t, f |-> f, json |-> json, transaction |-> transaction]

NoMessage == Raw(FALSE, "undefined", NotObj("undefined"), NotObj("undefined"), NoFields)

\* private isLikelyTransaction(value)
isLikelyTransaction(value) ==
    /\ value.t = "object"
    /\ TypeOf(value.f.id) = "string"
    /\ TypeOf(value.f.user_id) = "string"
    /\ TypeOf(value.f.transaction_date) = "string"
    /\ TypeOf(value.f.category) = "string"
    /\ (TypeOf(value.f.amount) = "number" \/ TypeOf(value.f.amount) = "string")

\* raw?.data ?? raw?.transaction ?? raw
Candidate(raw) ==
    IF raw.t \in {"null", "undefined"} THEN NotObj(raw.t)
    ELSE IF raw.data.t \notin {"null", "undefined"} THEN raw.data
    ELSE IF raw.transaction.t \notin {"null", "undefined"} THEN raw.transaction
    ELSE [t |-> raw.t, f |-> raw.f]

\* amount: typeof amount === 'string' ? Number(amount) : amount
Normalize(f) ==
    [f EXCEPT !.amount = IF TypeOf(f.amount) = "string" THEN ToNumber(f.amount.s) ELSE f.amount]

\* eventSource.onmessage up to the call of handleIncomingTransaction: the
\* normalized transaction, or NoFields when the message is dropped
OnMessage(raw) ==
    IF ~raw.json THEN NoFields
    ELSE IF ~isLikelyTransaction(Candidate(raw)) THEN NoFields
    ELSE IF Candidate(raw).f.user_id # Str(userId) THEN NoFields
    ELSE Normalize(Candidate(raw).f)

\* the messages the bridged stream carries in the model: a well-formed
\* transaction in each envelope, and one defect at a time
GoodFields == Tx(Str("k1"), Str("u1"), Str("transport"), Num(30000), Str("2026-11-05"))

FieldDefects ==
    {[GoodFields EXCEPT !.amount = a] :
         a \in {Str("300"), Str("abc"), Str(""), Null, Undefined, Bool(TRUE), Num(22000)}}
    \cup {[GoodFields EXCEPT !.id = Undefined], [GoodFields EXCEPT !.id = Num(7)],
          [GoodFields EXCEPT !.user_id = Undefined], [GoodFields EXCEPT !.user_id = Str("u2")],
          [GoodFields EXCEPT !.transaction_date = Null],
          [GoodFields EXCEPT !.category = Undefined]}

Messages ==
    {Raw(TRUE, "object", NotObj("undefined"), NotObj("undefined"), f) :
         f \in {GoodFields} \cup FieldDefects}
    \cup {Raw(TRUE, "object", Obj(GoodFields), NotObj("undefined"), NoFields),
          Raw(TRUE, "object", NotObj("null"), Obj(GoodFields), NoFields),
          Raw(TRUE, "object", NotObj("number"), Obj(GoodFields), NoFields),
          Raw(TRUE, "null", NotObj("undefined"), NotObj("undefined"), NoFields),
          Raw(TRUE, "number", NotObj("undefined"), NotObj("undefined"), NoFields),
          Raw(FALSE, "undefined", NotObj("undefined"), NotObj("undefined"), NoFields)}

(***************************************************************************)
(* Natural numbers of any size, for the significands of Numbers: a        *)
(* sequence of limbs below Radix, the least significant first, without a  *)
(* zero limb at its end; <<>> is 0.                                        *)
(***************************************************************************)
LimbBits == 15
Radix == 2^LimbBits

Limb(q, i) == IF i \in DOMAIN q THEN q[i] ELSE 0

Least(x, y) == IF x < y THEN x ELSE y

RECURSIVE Trim(_)
Trim(q) == IF q # <<>> /\ q[Len(q)] = 0 THEN Trim(SubSeq(q, 1, Len(q) - 1)) ELSE q

RECURSIVE Big(_)
Big(n) == IF n = 0 THEN <<>> ELSE <<n % Radix>> \o Big(n \div Radix)

\* the number of bits of a limb x, and of a
BitsOf(x) == Cardinality({k \in 1..LimbBits : 2^(k - 1) <= x})

BitLen(a) == IF a = <<>> THEN 0 ELSE LimbBits * (Len(a) - 1) + BitsOf(a[Len(a)])

\* a * 2^(LimbBits * s + t): limb i takes the low bits of one limb of a and the
\* high bits of the limb below it
ShlBy(a, s, t) ==
    Trim([i \in 1..(Len(a) + s + 1) |->
             (Limb(a, i - s) % 2^(LimbBits - t)) * 2^t
                 + (Limb(a, i - s - 1) \div 2^(LimbBits - t))])

Shl(a, k) == IF a = <<>> THEN <<>> ELSE ShlBy(a, k \div LimbBits, k % LimbBits)

\* the whole part of a / 2^(LimbBits * s + t)
ShrBy(a, s, t) ==
    Trim([i \in 1..(Len(a) - s) |->
             (a[i + s] \div 2^t) + (Limb(a, i + s + 1) % 2^t) * 2^(LimbBits - t)])

Shr(a, k) == IF a = <<>> THEN <<>> ELSE ShrBy(a, k \div LimbBits, k % LimbBits)

\* a modulo 2^(LimbBits * s + t)
LowBy(a, s, t) == Trim([i \in 1..(s + 1) |-> IF i <= s THEN Limb(a, i) ELSE Limb(a, i) % 2^t])

LowBits(a, k) == LowBy(a, k \div LimbBits, k % LimbBits)

\* the limbs of a sum whose limb-wise terms s are below 2 * Radix - 1: a carry
\* reaches limb i from the nearest limb below it that makes one, when every limb
\* between the two hands it on
Carried(s) ==
    Trim([i \in DOMAIN s |->
             (s[i] + (IF \E j \in 1..(i - 1) :
                            s[j] >= Radix /\ \A k \in (j + 1)..(i - 1) : s[k] = Radix - 1
                      THEN 1 ELSE 0)) % Radix])

\* the limbs of a difference that is not negative, from its limb-wise terms d
Borrowed(d) ==
    Trim([i \in DOMAIN d |->
             (d[i] - (IF \E j \in 1..(i - 1) : d[j] < 0 /\ \A k \in (j + 1)..(i - 1) : d[k] = 0
                      THEN 1 ELSE 0)) % Radix])

BigAdd(a, b) ==
    IF a = <<>> THEN b
    ELSE IF b = <<>> THEN a
    ELSE Carried([i \in 1..(Len(a) + Len(b)) |-> Limb(a, i) + Limb(b, i)])

\* a - b, for a >= b
BigSub(a, b) == IF a = b THEN <<>> ELSE Borrowed([i \in 1..Len(a) |-> a[i] - Limb(b, i)])

\* the comparison of a and b: -1, 0 or 1
BigCmp(a, b) ==
    IF a = b THEN 0
    ELSE IF Len(a) # Len(b) THEN (IF Len(a) < Len(b) THEN -1 ELSE 1)
    ELSE IF \E i \in DOMAIN a : a[i] < b[i] /\ \A k \in (i + 1)..Len(a) : a[k] = b[k]
    THEN -1 ELSE 1

\* a * k, for 0 <= k < Radix: the low halves of the limb products plus their
\* high halves one limb up
BigMulSmall(a, k) ==
    IF a = <<>> THEN <<>>
    ELSE Carried([i \in 1..(Len(a) + 1) |->
                     ((Limb(a, i) * k) % Radix) + ((Limb(a, i - 1) * k) \div Radix)])

\* a times the limbs j.. of b
RECURSIVE MulFrom(_, _, _)
MulFrom(a, b, j) ==
    IF j > Len(b) THEN <<>>
    ELSE BigAdd(ShlBy(MulFrom(a, b, j + 1), 1, 0), BigMulSmall(a, b[j]))

BigMul(a, b) == MulFrom(a, b, 1)

\* the limbs of a above limb i, modulo d, for 0 < d < Radix
RECURSIVE RemAbove(_, _, _)
RemAbove(a, d, i) == IF i >= Len(a) THEN 0 ELSE (RemAbove(a, d, i + 1) * Radix + a[i + 1]) % d

\* quotient and remainder of a by d, for 0 < d < Radix
BigDivSmall(a, d) ==
    [q |-> Trim([i \in 1..Len(a) |-> (RemAbove(a, d, i) * Radix + a[i]) \div d]),
     r |-> RemAbove(a, d, 0)]

\* the next quotient limb of long division, u being the running remainder with
\* the next limb of the dividend below it, and b having a top limb of at least
\* Radix / 2: the limb estimated from the two top limbs of u is the true one or
\* up to 2 above it
Estimate(b, u) ==
    Least((Limb(u, Len(b) + 1) * Radix + Limb(u, Len(b))) \div b[Len(b)], Radix - 1)

Digit(b, u, top) ==
    IF BigCmp(BigMulSmall(b, top), u) <= 0 THEN top
    ELSE IF BigCmp(BigMulSmall(b, top - 1), u) <= 0 THEN top - 1
    ELSE top - 2

DivStep(hi, b, u, d) == [q |-> <<d>> \o hi.q, r |-> BigSub(u, BigMulSmall(b, d))]

DivLimb(hi, b, limb) ==
    IF hi.r = <<>> /\ limb = 0 THEN [q |-> <<0>> \o hi.q, r |-> <<>>]
    ELSE DivStep(hi, b, <<limb>> \o hi.r, Digit(b, <<limb>> \o hi.r, Estimate(b, <<limb>> \o hi.r)))

\* quotient limbs j.. and remainder of the limbs j.. of a by b, limb by limb from the top
RECURSIVE LongDiv(_, _, _)
LongDiv(a, b, j) ==
    IF j > Len(a) - Len(b) + 1 THEN [q |-> <<>>, r |-> Trim(SubSeq(a, j, Len(a)))]
    ELSE DivLimb(LongDiv(a, b, j + 1), b, a[j])

Unshifted(qr, s) == [q |-> Trim(qr.q), r |-> Shr(qr.r, s)]

DivShifted(a, b, s) == Unshifted(LongDiv(Shl(a, s), Shl(b, s), 1), s)

\* quotient and remainder of a by b > 0
BigDivMod(a, b) == DivShifted(a, b, LimbBits - BitsOf(b[Len(b)]))

\* Newton's iteration for the square root of a, down from x >= sqrt(a)
RECURSIVE Newton(_, _)
Improved(a, x, y) == IF BigCmp(y, x) >= 0 THEN x ELSE Newton(a, y)

Newton(a, x) == Improved(a, x, Shr(BigAdd(x, BigDivMod(a, x).q), 1))

\* the whole part of the square root of a
BigSqrt(a) == IF a = <<>> THEN <<>> ELSE Newton(a, Shl(<<1>>, (BitLen(a) + 1) \div 2))

(***************************************************************************)
(* The Number type (IEEE 754 binary64), as detectAnomaly's arithmetic     *)
(* uses it: (-1)^neg * m * 2^e with m = 0 or a significand of exactly     *)
(* MantissaBits bits, or NaN.  Every operation gives the Number nearest   *)
(* to the exact result, ties to the even significand.  The amounts of the *)
(* model come nowhere near the ends of the exponent range, so subnormals  *)
(* and overflow are left out; Math.pow(x, 2) is taken as correctly        *)
(* rounded.                                                                *)
(***************************************************************************)
MantissaBits == 53

Float(neg, m, e) == [neg |-> neg, m |-> m, e |-> e, nan |-> FALSE]
Zero == Float(FALSE, <<>>, 0)
NotANumber == [neg |-> FALSE, m |-> <<>>, e |-> 0, nan |-> TRUE]

\* a rounded significand that the rounding carried to one bit more is halved
Normal(neg, m, e) ==
    IF BitLen(m) > MantissaBits THEN Float(neg, Shr(m, 1), e + 1) ELSE Float(neg, m, e)

\* q, or q + 1: half == -1, 0 or 1 tells whether the part cut off q is below,
\* at or above half a unit of q
Nearest(neg, q, half, sticky, e) ==
    Normal(neg,
           IF half > 0 \/ (half = 0 /\ (sticky \/ q[1] % 2 = 1)) THEN BigAdd(q, <<1>>) ELSE q,
           e)

RoundTo(neg, M, e, sticky, k) ==
    IF k <= 0 THEN Float(neg, Shl(M, 0 - k), e + k)
    ELSE Nearest(neg, Shr(M, k), BigCmp(LowBits(M, k), Shl(<<1>>, k - 1)), sticky, e + k)

\* the Number nearest to (-1)^neg * (M + f) * 2^e, where 0 <= f < 1 and f > 0 iff
\* sticky; a sticky M has more than MantissaBits bits
Round(neg, M, e, sticky) ==
    IF M = <<>> THEN Zero ELSE RoundTo(neg, M, e, sticky, BitLen(M) - MantissaBits)

\* a whole number as a Number
FromInt(n) == Round(FALSE, Big(n), 0, FALSE)

Parsed(qr) == Round(FALSE, qr.q, -64, qr.r # 0)

\* parseFloat of a DECIMAL(12, 2) value of c hundredths: the Number nearest to c / 100
ParseFloat(c) == Parsed(BigDivSmall(Shl(Big(c), 64), 100))

FNeg(x) == IF x.nan \/ x.m = <<>> THEN x ELSE [x EXCEPT !.neg = ~x.neg]

FAbs(x) == [x EXCEPT !.neg = FALSE]

AbsDiff(X, Y) == IF BigCmp(X, Y) >= 0 THEN BigSub(X, Y) ELSE BigSub(Y, X)

\* (-1)^xneg * X * 2^e + (-1)^yneg * Y * 2^e
AddAligned(xneg, X, yneg, Y, e) ==
    Round(IF xneg = yneg \/ BigCmp(X, Y) > 0 THEN xneg ELSE yneg,
          IF xneg = yneg THEN BigAdd(X, Y) ELSE AbsDiff(X, Y),
          e, FALSE)

\* x + y
FAdd(x, y) ==
    IF x.nan \/ y.nan THEN NotANumber
    ELSE IF x.m = <<>> THEN y
    ELSE IF y.m = <<>> THEN x
    ELSE AddAligned(x.neg, Shl(x.m, x.e - Least(x.e, y.e)),
                    y.neg, Shl(y.m, y.e - Least(x.e, y.e)), Least(x.e, y.e))

\* x - y
FSub(x, y) == FAdd(x, FNeg(y))

\* x * y
FMul(x, y) ==
    IF x.nan \/ y.nan THEN NotANumber
    ELSE IF x.m = <<>> \/ y.m = <<>> THEN Zero
    ELSE Round(x.neg # y.neg, BigMul(x.m, y.m), x.e + y.e, FALSE)

\* the bits a significand is shifted up by before it is divided
DivBits == MantissaBits + 3

Quotient(neg, qr, e) == Round(neg, qr.q, e, qr.r # <<>>)

\* x / y, for y # 0
FDiv(x, y) ==
    IF x.nan \/ y.nan \/ y.m = <<>> THEN NotANumber
    ELSE IF x.m = <<>> THEN Zero
    ELSE Quotient(x.neg # y.neg, BigDivMod(Shl(x.m, DivBits), y.m), x.e - y.e - DivBits)

\* the bits a significand of exponent e is shifted up by before its root is
\* taken: the exponent left is even
RootBits(e) == 60 + (e % 2)

RootOf(N, r, e) == Round(FALSE, r, e, BigMul(r, r) # N)

Root(N, e) == RootOf(N, BigSqrt(N), e)

\* Math.sqrt(x)
FSqrt(x) ==
    IF x.nan \/ (x.neg /\ x.m # <<>>) THEN NotANumber
    ELSE IF x.m = <<>> THEN Zero
    ELSE Root(Shl(x.m, RootBits(x.e)), (x.e - RootBits(x.e)) \div 2)

\* x > k and x = k, for a whole number k >= 0; a comparison with NaN is false
FGreater(x, k) ==
    /\ ~x.nan /\ ~x.neg /\ x.m # <<>>
    /\ IF x.e >= 0 THEN BigCmp(Shl(x.m, x.e), Big(k)) > 0
       ELSE BigCmp(x.m, Shl(Big(k), 0 - x.e)) > 0

FEqual(x, k) == ~x.nan /\ x = FromInt(k)

\* |x| <= |y|, for two Numbers that are not NaN
FAbsLeq(x, y) ==
    \/ x.m = <<>>
    \/ y.m # <<>> /\ BigCmp(Shl(x.m, x.e - Least(x.e, y.e)), Shl(y.m, y.e - Least(x.e, y.e))) <= 0

(***************************************************************************)
(* The transactions table and the two evaluations of processTransaction.  *)
(***************************************************************************)
Dates == {"2026-10-20", "2026-11-05"}

\* date.slice(0, 7): the month a stored date lies in
MonthOf(d) == IF d = "2026-10-20" THEN "2026-10" ELSE "2026-11"

\* the dates from the latest to the earliest, as ORDER BY transaction_date DESC reads them
DatesDescending == <<"2026-11-05", "2026-10-20">>

Row(id, u, cat, amt, date) ==
    [user_id |-> u, id |-> id, category |-> cat, amount |-> amt, transaction_date |-> date]

\* payload.new as Transaction
RowTx(r) == Tx(Str(r.id), Str(r.user_id), Str(r.category), Num(r.amount), Str(r.transaction_date))

RECURSIVE SeqSum(_)
SeqSum(q) == IF q = <<>> THEN 0 ELSE Head(q) + SeqSum(Tail(q))

RECURSIVE Concat(_)
Concat(qs) == IF qs = <<>> THEN <<>> ELSE Head(qs) \o Concat(Tail(qs))

AmountsOf(rows) == [i \in DOMAIN rows |-> rows[i].amount]

MinSamples == 10
HistoryLimit == 50

\* from('transactions').select('amount').eq('user_id', ..).eq('category', ..)
\*   .order('transaction_date', { ascending: false }).limit(50); data is null on error
HistoryQuery(store, cat, ok) ==
    LET mine(r) == r.user_id = userId /\ Str(r.category) = cat
        byDate == Concat([k \in DOMAIN DatesDescending |->
                     SelectSeq(store, LAMBDA r : mine(r) /\ r.transaction_date = DatesDescending[k])])
        limited == SubSeq(byDate, 1, IF Len(byDate) < HistoryLimit THEN Len(byDate) ELSE HistoryLimit)
    IN  [rows |-> IF ok THEN AmountsOf(limited) ELSE <<>>, ok |-> ok]

\* an operator that lets through every query with at least one row
FewSamples(data) == ~data.ok \/ Len(data.rows) < 1

\* !recentTransactions || recentTransactions.length < 10
InsufficientData(data) == ~data.ok \/ Len(data.rows) < MinSamples

\* recentTransactions.map((t) => parseFloat(t.amount))
ParsedAmounts(rows) == [i \in DOMAIN rows |-> ParseFloat(rows[i])]

\* q.reduce((a, b) => a + b, 0) over the first k terms: they are added from the left
RECURSIVE Reduce(_, _)
Reduce(q, k) == IF k = 0 THEN Zero ELSE FAdd(Reduce(q, k - 1), q[k])

\* q.reduce((a, b) => a + b, 0) / amounts.length, q having one term for each amount
Average(q) == FDiv(Reduce(q, Len(q)), FromInt(Len(q)))

\* mean = amounts.reduce((a, b) => a + b, 0) / amounts.length
Mean(amounts) == Average(amounts)

\* Math.pow(x, 2)
Square(x) == FMul(x, x)

\* variance = amounts.reduce((sq, n) => sq + Math.pow(n - mean, 2), 0) / amounts.length
Variance(amounts, mean) == Average([i \in DOMAIN amounts |-> Square(FSub(amounts[i], mean))])

\* the three constants mean, variance and stdDev = Math.sqrt(variance), in the
\* order of their statements
WithVariance(mean, variance) ==
    [mean |-> mean, variance |-> variance, stdDev |-> FSqrt(variance)]

WithMean(amounts, mean) == WithVariance(mean, Variance(amounts, mean))

Statistics(amounts) == WithMean(amounts, Mean(amounts))

\* parseFloat(transaction.amount.toString())
TransactionAmount(amt) == IF amt.t = "number" THEN ParseFloat(amt.n) ELSE NotANumber

\* an operator that measures the distance from twice the mean
TwiceTheMean(transactionAmount, mean) == FSub(transactionAmount, FAdd(mean, mean))

\* transactionAmount - mean
Distance(transactionAmount, mean) == FSub(transactionAmount, mean)

\* zScore = stdDev > 0 ? (transactionAmount - mean) / stdDev : 0
ZScore(stats, transactionAmount) ==
    IF FGreater(stats.stdDev, 0)
    THEN FDiv(Distance(transactionAmount, stats.mean), stats.stdDev)
    ELSE Zero

\* Math.abs(zScore) > k
AbsExceeds(zScore, k) == FGreater(FAbs(zScore), k)

\* an AnomalyResult; zScore is detectAnomaly's local of that name, kept beside it
AnomalyResult(isAnomaly, severity, reason, transaction, zScore) ==
    [transaction |-> transaction, zScore |-> zScore, isAnomaly |-> isAnomaly,
     severity |-> severity, reason |-> reason]

\* the two tests of Math.abs(zScore) and the three returns after them
Classified(zScore, transaction) ==
    IF AbsExceeds(zScore, 3)
    THEN AnomalyResult(TRUE, "high", "deviations", transaction, zScore)
    ELSE IF AbsExceeds(zScore, 2)
    THEN AnomalyResult(TRUE, "medium", "higher", transaction, zScore)
    ELSE AnomalyResult(FALSE, "low", "", transaction, zScore)

\* private async detectAnomaly(transaction), after its query returned data
detectAnomaly(data, transaction) ==
    IF InsufficientData(data)
    THEN AnomalyResult(FALSE, "low", "insufficient", transaction, Zero)
    ELSE Classified(ZScore(Statistics(ParsedAmounts(data.rows)),
                           TransactionAmount(transaction.amount)),
                    transaction)

NoBudget == [groceries |-> 0, transport |-> 0, user_id |-> "", is_active |-> FALSE, period |-> ""]

\* an operator that answers with the owner's budget when the query failed as well
StaleBudget(rows, ok) ==
    IF ActiveRows(rows, userId) # {}
    THEN rows[CHOOSE i \in ActiveRows(rows, userId) : \A j \in ActiveRows(rows, userId) : j <= i]
    ELSE NoBudget

\* from('budgets').select('*').eq('user_id', ..).eq('is_active', true)
\*   .order('created_at', { ascending: false }).limit(1).maybeSingle(); data is null on error
BudgetQuery(rows, ok) ==
    IF ok /\ ActiveRows(rows, userId) # {}
    THEN rows[CHOOSE i \in ActiveRows(rows, userId) : \A j \in ActiveRows(rows, userId) : j <= i]
    ELSE NoBudget

\* the same-category rows of the owner dated within the wall-clock month
MonthQuery(store, cat, ok) ==
    LET hit(r) == /\ r.user_id = userId
                  /\ Str(r.category) = cat
                  /\ MonthOf(r.transaction_date) = now
    IN  [rows |-> IF ok THEN AmountsOf(SelectSeq(store, hit)) ELSE <<>>, ok |-> ok]

\* x >= k, for a whole number k >= 0
AtLeast(x, k) == FGreater(x, k) \/ (~x.nan /\ x = FromInt(k))

\* a BudgetAlert; NoAlert is checkBudgetStatus's null
BudgetAlert(category, budgeted, spent, percentUsed, status) ==
    [status |-> status, category |-> category, budgeted |-> budgeted,
     spent |-> spent, percentUsed |-> percentUsed]

NoAlert == BudgetAlert("", Zero, Zero, Zero, "none")

\* totalSpent = monthTransactions?.reduce((sum, t) => sum + parseFloat(t.amount), 0) || 0
TotalSpent(data) ==
    IF data.ok THEN Reduce(ParsedAmounts(data.rows), Len(data.rows)) ELSE Zero

\* an operator that reads the whole budget, whatever the category
WholeBudget(budget, cat) == ParseFloat(budget.groceries + budget.transport)

\* budgeted = parseFloat(budget[transaction.category]?.toString() || '0')
Budgeted(budget, cat) ==
    IF cat.t = "string" /\ cat.s \in Categories THEN ParseFloat(budget[cat.s]) ELSE Zero

\* percentUsed = (totalSpent / budgeted) * 100
PercentUsed(totalSpent, budgeted) == FMul(FDiv(totalSpent, budgeted), FromInt(100))

\* the two thresholds, the higher one first
Alerted(category, budgeted, totalSpent, percentUsed) ==
    IF AtLeast(percentUsed, 100)
    THEN BudgetAlert(category, budgeted, totalSpent, percentUsed, "exceeded")
    ELSE IF AtLeast(percentUsed, 80)
    THEN BudgetAlert(category, budgeted, totalSpent, percentUsed, "warning")
    ELSE NoAlert

\* if (budgeted === 0) return null
Tracked(category, budgeted, totalSpent) ==
    IF budgeted = Zero THEN NoAlert
    ELSE Alerted(category, budgeted, totalSpent, PercentUsed(totalSpent, budgeted))

\* private async checkBudgetStatus(transaction), after its two queries returned
checkBudgetStatus(budget, data, transaction) ==
    IF budget = NoBudget THEN NoAlert
    ELSE Tracked(transaction.category.s, Budgeted(budget, transaction.category), TotalSpent(data))

(***************************************************************************)
(* TransactionPipeline: transports.                                        *)
(***************************************************************************)
MaxTransports == 2
MaxEvents == 2
MaxMessages == 2

Transport(kind) == [open |-> TRUE, kind |-> kind, inbox |-> <<>>]

\* supabase.removeChannel(ch) / eventSource.close(): the connection ends and
\* hands over nothing more
Close(trs, ids) ==
    [i \in DOMAIN trs |-> IF i \in ids THEN [trs[i] EXCEPT !.open = FALSE, !.inbox = <<>>] ELSE trs[i]]

OpenTransports == {i \in DOMAIN transports : transports[i].open}

\* subscribe(), with subscribeKafkaSse(url) when the bridged URL is configured;
\* created tells whether new EventSource(streamUrl) returned or threw
subscribe(created) ==
    /\ Len(transports) < MaxTransports
    /\ IF kafkaSseUrl
       THEN /\ channel' = 0
            /\ IF created
               THEN /\ transports' = Append(Close(transports, {channel} \ {0}), Transport("sse"))
                    /\ eventSource' = Len(transports) + 1
               ELSE /\ transports' = Close(transports, {channel} \ {0})
                    /\ eventSource' = eventSource
            /\ lastCall' = [op |-> "subscribe", ops |-> IF channel # 0 THEN 1 ELSE 0,
                            wasOpen |-> OpenTransports # {}]
       ELSE /\ transports' = Append(transports, Transport("channel"))
            /\ channel' = Len(transports) + 1
            /\ eventSource' = eventSource
            /\ lastCall' = [op |-> "subscribe", ops |-> 0, wasOpen |-> OpenTransports # {}]
    /\ UNCHANGED <<kafkaSseUrl, evals, delivered, anomalies, alerts, received, lastMsg, now>>

\* unsubscribe()
unsubscribe ==
    /\ transports' = Close(transports, {channel, eventSource} \ {0})
    /\ eventSource' = 0
    /\ channel' = channel
    /\ lastCall' = [op |-> "unsubscribe",
                    ops |-> (IF channel # 0 THEN 1 ELSE 0) + (IF eventSource # 0 THEN 1 ELSE 0),
                    wasOpen |-> OpenTransports # {}]
    /\ UNCHANGED <<kafkaSseUrl, evals, delivered, anomalies, alerts, received, lastMsg, now>>

(***************************************************************************)
(* TransactionPipeline: dispatch and evaluation.                           *)
(***************************************************************************)
\* a handler that notifies the listeners only once the evaluation is over
EmitAfterProcessing == <<"processTransaction", "emitTransaction">>

\* the statements of handleIncomingTransaction, in order; the second awaits
handleIncomingTransaction == <<"emitTransaction", "processTransaction">>

\* the place of the awaited statement
AwaitAt == CHOOSE k \in DOMAIN handleIncomingTransaction :
               handleIncomingTransaction[k] = "processTransaction"

Statements(from, to) == {handleIncomingTransaction[k] : k \in from..to}

\* emitTransaction: onTransaction, then every transaction listener
emitTransaction(log, seq, via, tx) == Append(log, [seq |-> seq, via |-> via, tx |-> tx])

\* a call of handleIncomingTransaction, run up to its await: the statements before
\* processTransaction, then detectAnomaly's query is under way
Incoming(via, tx) ==
    /\ received < MaxEvents
    /\ received' = received + 1
    /\ delivered' = IF "emitTransaction" \in Statements(1, AwaitAt - 1)
                    THEN emitTransaction(delivered, received + 1, via, tx)
                    ELSE delivered
    /\ evals' = evals \cup {[pc |-> "detectAnomaly", failed |-> {}, budget |-> NoBudget,
                             seq |-> received + 1, via |-> via, tx |-> tx]}
    /\ UNCHANGED <<anomalies, alerts>>

\* the queries of an evaluation that returned an error, ok telling of the last one
Failed(e, query, ok) == IF ok THEN e.failed ELSE e.failed \cup {query}

\* the statements after the await, once processTransaction has returned; the run
\* is kept with the queries that failed in it
Resume(e, failed) ==
    /\ evals' = evals \ {e}
    /\ result' = <<[failed |-> failed, seq |-> e.seq]>> \o result
    /\ delivered' = IF "emitTransaction" \in Statements(AwaitAt + 1, Len(handleIncomingTransaction))
                    THEN emitTransaction(delivered, e.seq, e.via, e.tx)
                    ELSE delivered

\* a row is written to public.transactions (by the app, the payment page, an OCR
\* run); every open change-feed channel of the owner is sent the INSERT
StoredIds == {txStore[i].id : i \in DOMAIN txStore}

InsertTransaction(r) ==
    /\ Cardinality({i \in DOMAIN txStore : txStore[i].id # "seed"}) < MaxEvents
    /\ txStore' = Append(txStore, r)
    /\ transports' = [i \in DOMAIN transports |->
          IF transports[i].kind = "channel" /\ transports[i].open /\ r.user_id = userId
          THEN [transports[i] EXCEPT !.inbox = Append(@, RowTx(r))]
          ELSE transports[i]]
    /\ UNCHANGED <<budgetVars, kafkaSseUrl, channel, eventSource, evals, delivered,
                   anomalies, alerts, received, lastCall, lastMsg, now, result, appVars>>

\* the postgres_changes INSERT callback of a channel
ChannelInsert(i) ==
    /\ i \in OpenTransports
    /\ transports[i].kind = "channel"
    /\ transports[i].inbox # <<>>
    /\ transports' = [transports EXCEPT ![i].inbox = Tail(@)]
    /\ Incoming("channel", Head(transports[i].inbox))
    /\ UNCHANGED <<budgetVars, kafkaSseUrl, channel, eventSource, txStore, lastCall,
                   lastMsg, now, result, appVars>>

\* eventSource.onmessage of a bridged stream
SseMessage(i, raw) ==
    /\ i \in OpenTransports
    /\ transports[i].kind = "sse"
    /\ lastMsg.n < MaxMessages
    /\ lastMsg' = [n |-> lastMsg.n + 1, raw |-> raw]
    /\ IF OnMessage(raw) = NoFields
       THEN UNCHANGED <<received, delivered, evals, anomalies, alerts>>
       ELSE Incoming("sse", OnMessage(raw))
    /\ UNCHANGED <<budgetVars, kafkaSseUrl, channel, eventSource, transports, txStore,
                   lastCall, now, result, appVars>>

\* if (anomaly.isAnomaly) this.emitAnomaly(anomaly): the anomalies handed to the callbacks
Emitted(seq, anomaly) ==
    IF anomaly.isAnomaly THEN Append(anomalies, [seq |-> seq, anomaly |-> anomaly]) ELSE anomalies

\* processTransaction, step 1: detectAnomaly's query returns; emitAnomaly
EvalDetectAnomaly(e, ok) ==
    /\ e \in evals
    /\ e.pc = "detectAnomaly"
    /\ anomalies' = Emitted(e.seq, detectAnomaly(HistoryQuery(txStore, e.tx.category, ok), e.tx))
    /\ evals' = (evals \ {e}) \cup
                    {[e EXCEPT !.pc = "budgetQuery", !.failed = Failed(e, "recentTransactions", ok)]}
    /\ UNCHANGED <<budgetVars, kafkaSseUrl, channel, eventSource, transports, txStore,
                   delivered, alerts, received, lastCall, lastMsg, now, result, appVars>>

\* processTransaction, step 2: checkBudgetStatus's budget query returns
EvalBudgetQuery(e, ok) ==
    /\ e \in evals
    /\ e.pc = "budgetQuery"
    /\ IF BudgetQuery(budgets, ok) = NoBudget
       THEN Resume(e, Failed(e, "budget", ok))
       ELSE /\ evals' = (evals \ {e}) \cup
                           {[e EXCEPT !.pc = "monthQuery", !.budget = BudgetQuery(budgets, ok),
                                      !.failed = Failed(e, "budget", ok)]}
            /\ UNCHANGED <<delivered, result>>
    /\ UNCHANGED <<budgetVars, kafkaSseUrl, channel, eventSource, transports, txStore,
                   anomalies, alerts, received, lastCall, lastMsg, now, appVars>>

\* if (budgetAlert) this.emitBudgetAlert(budgetAlert): the alerts handed to the callbacks
EmittedAlerts(seq, budgetAlert) ==
    IF budgetAlert # NoAlert THEN Append(alerts, [seq |-> seq, alert |-> budgetAlert]) ELSE alerts

\* processTransaction, step 2 goes on: the month's rows return; emitBudgetAlert;
\* updateStatistics does nothing
EvalMonthQuery(e, ok) ==
    /\ e \in evals
    /\ e.pc = "monthQuery"
    /\ alerts' = EmittedAlerts(e.seq, checkBudgetStatus(e.budget,
                                       MonthQuery(txStore, e.tx.category, ok), e.tx))
    /\ Resume(e, Failed(e, "monthTransactions", ok))
    /\ UNCHANGED <<budgetVars, kafkaSseUrl, channel, eventSource, transports, txStore,
                   anomalies, received, lastCall, lastMsg, now, appVars>>

\* scenario A: twelve transport transactions of the owner, mean 200, standard deviation 20
ScenarioA ==
    [i \in 1..12 |->
        Row("seed", userId, "transport", IF i <= 6 THEN 18000 ELSE 22000, "2026-10-20")]

\* the rows written while the pipeline runs
TxInputs ==
    {[u |-> "u1", cat |-> "transport", amt |-> 30000, date |-> "2026-11-05"],
     [u |-> "u1", cat |-> "groceries", amt |-> 22000, date |-> "2026-11-05"],
     [u |-> "u2", cat |-> "transport", amt |-> 30000, date |-> "2026-11-05"],
     [u |-> "u1", cat |-> "transport", amt |-> 18000, date |-> "2026-10-20"]}

\* the pages and the other pipelines before anything was done with them
NewUi ==
    /\ chatPipe = NewChatPipe
    /\ chatCalls = <<>>
    /\ extRuns = NoRuns
    /\ documents = NoDocuments
    /\ budgetsBefore = NoCall
    /\ chatPage = NewChatPage
    /\ manager = NewManager
    /\ provider = NewProvider
    /\ txPage = NewTxPage

\* the application before anything was delivered to it
NewApp ==
    /\ recentAlerts = <<>>
    /\ listeners = [kind \in Signals |-> <<>>]
    /\ dispatch = NoDispatch
    /\ calls = <<>>
    /\ removed = {}
    /\ chat = NoChat
    /\ chatHistory = <<>>
    /\ NewUi

\* a TransactionPipeline right after its constructor
NewPipeline ==
    /\ channel = 0
    /\ eventSource = 0
    /\ transports = <<>>
    /\ evals = {}
    /\ delivered = <<>>
    /\ anomalies = <<>>
    /\ alerts = <<>>
    /\ received = 0
    /\ lastCall = [op |-> "new", ops |-> 0, wasOpen |-> FALSE]
    /\ lastMsg = [n |-> 0, raw |-> NoMessage]
    /\ result = <<>>

InitBudget ==
    /\ budgets = <<>>
    /\ income \in [Users -> {0, 5000}]
    /\ bproc = [c \in Clients |-> Idle]
    /\ ocrRuns = [c \in Clients |-> NoRun]
    /\ kafkaSseUrl = FALSE
    /\ txStore = <<>>
    /\ now = "2026-11"
    /\ NewPipeline
    /\ NewApp

OcrOutcomes == {"error", "empty", "text"}

ParseOutcomes == {"error", "none", "rows"}

SuggestOutcomes == {"error", "refused", "none", "object"}

\* SpecBudget: the budget writers of two clients; the calls of the runs of
\* ocr-process before the suggest-budget step succeed
NextBudget ==
    \/ \E c \in Clients, u \in Users, ok \in BOOLEAN :
          CreateBudgetDeactivate(c, u, ok) /\ UNCHANGED <<pipeVars, txStore, result, appVars>>
    \/ \E c \in Clients, alloc \in BudgetAllocs, ok \in BOOLEAN :
          CreateBudgetInsert(c, alloc, ok) /\ UNCHANGED <<pipeVars, txStore, result, appVars>>
    \/ \E c \in Clients, u \in Users :
          OcrExtract(c, u, "text") /\ UNCHANGED <<pipeVars, txStore, result, appVars>>
    \/ \E c \in Clients :
          OcrStoreText(c, TRUE) /\ UNCHANGED <<pipeVars, txStore, result, appVars>>
    \/ \E c \in Clients :
          OcrParse(c, "rows") /\ UNCHANGED <<pipeVars, txStore, result, appVars>>
    \/ \E c \in Clients :
          OcrInsertTransactions(c, TRUE) /\ UNCHANGED <<pipeVars, txStore, result, appVars>>
    \/ \E c \in Clients :
          OcrReadIncome(c) /\ UNCHANGED <<pipeVars, txStore, result, appVars>>
    \/ \E c \in Clients :
          OcrCheckBudget(c) /\ UNCHANGED <<pipeVars, txStore, result, appVars>>
    \/ \E c \in Clients, outcome \in {"none", "object"} :
          OcrGenerate(c, outcome) /\ UNCHANGED <<pipeVars, txStore, result, appVars>>
    \/ \E c \in Clients, alloc \in BudgetAllocs, ok \in BOOLEAN :
          OcrInsertBudget(c, alloc, ok) /\ UNCHANGED <<pipeVars, txStore, result, appVars>>
    \/ \E c \in Clients :
          OcrMarkProcessed(c, TRUE) /\ UNCHANGED <<pipeVars, txStore, result, appVars>>

SpecBudget == InitBudget /\ [][NextBudget]_vars

(***************************************************************************)
(* C1: in every reachable state each owner has at most one budget with    *)
(* is_active = true, also when createBudget and suggest-budget runs for   *)
(* the same owner interleave.                                              *)
(***************************************************************************)
C1_OneActiveBudgetPerOwner ==
    \A u \in Users : Cardinality(ActiveRows(budgets, u)) <= 1

\* the environment of a pipeline: the owner's budget, the stored rows, the build's transport
Environment(budgetRows, stores, urls) ==
    /\ budgets \in budgetRows
    /\ income = [u \in Users |-> 0]
    /\ bproc = [c \in Clients |-> Idle]
    /\ ocrRuns = [c \in Clients |-> NoRun]
    /\ kafkaSseUrl \in urls
    /\ txStore \in stores
    /\ now = "2026-11"
    /\ NewPipeline
    /\ NewApp

OneBudget == <<BudgetRow(userId, [groceries |-> 100000, transport |-> 50000])>>

\* the steps of a pipeline's evaluations
Evaluate ==
    \/ \E e \in evals, ok \in BOOLEAN : EvalDetectAnomaly(e, ok)
    \/ \E e \in evals, ok \in BOOLEAN : EvalBudgetQuery(e, ok)
    \/ \E e \in evals, ok \in BOOLEAN : EvalMonthQuery(e, ok)

\* SpecPipe: one pipeline under either transport, rows of two owners being written
PipeInputs == {x \in TxInputs : x.cat = "transport" /\ x.amt = 30000}

PipeMessages ==
    {Raw(TRUE, "object", NotObj("undefined"), NotObj("undefined"), f) :
         f \in {GoodFields, [GoodFields EXCEPT !.user_id = Str("u2")]}}

InitPipe == Environment({OneBudget}, {<<>>}, BOOLEAN)

NextPipe ==
    \/ \E created \in BOOLEAN : subscribe(created) /\ UNCHANGED <<budgetVars, txStore, result, appVars>>
    \/ unsubscribe /\ UNCHANGED <<budgetVars, txStore, result, appVars>>
    \/ \E x \in PipeInputs :
          InsertTransaction(Row(ToString(Len(txStore) + 1), x.u, x.cat, x.amt, x.date))
    \/ \E i \in DOMAIN transports : ChannelInsert(i)
    \/ \E i \in DOMAIN transports, raw \in PipeMessages : SseMessage(i, raw)
    \/ Evaluate

SpecPipe == InitPipe /\ [][NextPipe]_vars

\* SpecSse: the bridged stream configured, carrying every message of the model
InitSse == Environment({<<>>, OneBudget}, {<<>>}, {TRUE})

NextSse ==
    \/ \E created \in BOOLEAN : subscribe(created) /\ UNCHANGED <<budgetVars, txStore, result, appVars>>
    \/ unsubscribe /\ UNCHANGED <<budgetVars, txStore, result, appVars>>
    \/ \E i \in DOMAIN transports, raw \in Messages : SseMessage(i, raw)
    \/ Evaluate

SpecSse == InitSse /\ [][NextSse]_vars

\* SpecScenarioA: scenario A's history stored, the pipeline on the change feed,
\* then transactions of 300 being written
ScenarioInputs == {x \in TxInputs : x.u = userId /\ x.cat = "transport" /\ x.amt = 30000}

InitScenarioA == Environment({OneBudget}, {ScenarioA}, {FALSE})

NextScenarioA ==
    \/ \E created \in BOOLEAN : subscribe(created) /\ UNCHANGED <<budgetVars, txStore, result, appVars>>
    \/ unsubscribe /\ UNCHANGED <<budgetVars, txStore, result, appVars>>
    \/ \E x \in ScenarioInputs :
          InsertTransaction(Row(ToString(Len(txStore) + 1), x.u, x.cat, x.amt, x.date))
    \/ \E i \in DOMAIN transports : ChannelInsert(i)
    \/ Evaluate

SpecScenarioA == InitScenarioA /\ [][NextScenarioA]_vars

(***************************************************************************)
(* SpecAnomaly: detectAnomaly applied to the owner's stored samples.  The  *)
(* store holds rows of another owner and of another category as well.      *)
(* The samples have up to MaxSample rows, fewer than HistoryLimit: the     *)
(* query's limit cuts none of them.                                        *)
(***************************************************************************)
MaxSample == 12

\* the amounts of SpecAnomaly: 1.80, 2.20 and 3.00 rupees
SmallAmounts == {180, 220, 300}

OtherRows ==
    [i \in 1..10 |-> IF i <= 5 THEN Row("seed", "u2", "transport", 300, "2026-11-05")
                              ELSE Row("seed", userId, "groceries", 300, "2026-11-05")]

\* a stored sample of k3 amounts of 3.00, k2 of 2.20 and k1 of 1.80, the latest first
Sample(k3, k2, k1) ==
    [i \in 1..(k1 + k2 + k3) |->
        Row("seed", userId, "transport",
            IF i <= k3 THEN 300 ELSE IF i <= k3 + k2 THEN 220 ELSE 180, "2026-11-05")]

\* samples of MinSamples - 1 to MaxSample rows: one amount throughout, one
\* amount with a single 3.00, and the two lower amounts half and half
Samples ==
    {Sample(k3, n - k3 - (IF half THEN n \div 2 ELSE 0), IF half THEN n \div 2 ELSE 0) \o OtherRows :
        n \in (MinSamples - 1)..MaxSample, k3 \in {0, 1}, half \in BOOLEAN}

InitAnomaly == Environment({<<>>}, Samples, {FALSE})

\* an incoming transport transaction of the owner, of amount a
Incomer(a) == Tx(Str("incoming"), Str(userId), Str("transport"), Num(a), Str("2026-11-05"))

\* the AnomalyResult is emitted as processTransaction emits it, and kept
Kept(seq, ok, anomaly) ==
    /\ result' = <<[ok |-> ok, seq |-> seq, anomaly |-> anomaly]>> \o result
    /\ anomalies' = Emitted(seq, anomaly)

\* processTransaction, step 1, for an incoming transport transaction of amount a
Detect(a, ok) ==
    /\ received < MaxEvents
    /\ received' = received + 1
    /\ Kept(received + 1, ok, detectAnomaly(HistoryQuery(txStore, Str("transport"), ok), Incomer(a)))
    /\ UNCHANGED <<budgetVars, kafkaSseUrl, channel, eventSource, transports, txStore, evals,
                   delivered, alerts, lastCall, lastMsg, now>>

NextAnomaly == \E a \in SmallAmounts, ok \in BOOLEAN : Detect(a, ok) /\ UNCHANGED appVars

SpecAnomaly == InitAnomaly /\ [][NextAnomaly]_vars

(***************************************************************************)
(* SpecBudgetStatus: checkBudgetStatus applied to the owner's stored rows. *)
(* The budgets table holds no row, an inactive one, a monthly or a yearly  *)
(* one; the store holds rows of two months, of another owner and of both   *)
(* categories; the wall clock stands in a month of 31 days.                *)
(***************************************************************************)
Yearly(row) == [row EXCEPT !.period = "yearly"]

Inactive(row) == [row EXCEPT !.is_active = FALSE]

\* budgets of 1000 rupees and of 1 rupee for groceries
BudgetTables ==
    {<<>>,
     <<Inactive(BudgetRow(userId, [groceries |-> 100000, transport |-> 50000]))>>,
     <<BudgetRow(userId, [groceries |-> 100000, transport |-> 0])>>,
     <<BudgetRow(userId, [groceries |-> 100, transport |-> 50000])>>,
     <<Yearly(BudgetRow(userId, [groceries |-> 100000, transport |-> 0]))>>}

\* scenario B after the new transaction of 100 was written: 750 spent before it
ScenarioB ==
    <<Row("seed", userId, "groceries", 50000, "2026-10-20"),
      Row("seed", "u2", "groceries", 90000, "2026-10-20"),
      Row("seed", userId, "groceries", 25000, "2026-10-20"),
      Row("seed", userId, "groceries", 30000, "2026-11-05"),
      Row("k1", userId, "groceries", 10000, "2026-10-20")>>

\* three purchases of 0.06, 0.57 and 0.37 rupees, and transport at 80 percent
Cents ==
    <<Row("seed", userId, "groceries", 6, "2026-10-20"),
      Row("seed", userId, "groceries", 57, "2026-10-20"),
      Row("seed", userId, "transport", 40000, "2026-10-20"),
      Row("seed", userId, "groceries", 37, "2026-10-20")>>

Overspent ==
    <<Row("seed", userId, "groceries", 120000, "2026-10-20"),
      Row("seed", userId, "transport", 90000, "2026-10-20")>>

Months == {"2026-10", "2026-12"}

InitBudgetStatus ==
    /\ budgets \in BudgetTables
    /\ income = [u \in Users |-> 0]
    /\ bproc = [c \in Clients |-> Idle]
    /\ ocrRuns = [c \in Clients |-> NoRun]
    /\ kafkaSseUrl = FALSE
    /\ txStore \in {<<>>, ScenarioB, Cents, Overspent}
    /\ now \in Months
    /\ NewPipeline
    /\ NewApp

\* an incoming transaction of the owner, of 100 rupees
Spending(cat, date) == Tx(Str("k1"), Str(userId), Str(cat), Num(10000), Str(date))

\* the month's rows are not asked for when no budget was found
NoData == [rows |-> <<>>, ok |-> FALSE]

\* the alert is emitted as processTransaction emits it, and kept with what it came from
Noted(seq, transaction, budget, data, budgetAlert) ==
    /\ result' = <<[data |-> data, transaction |-> transaction, budget |-> budget,
                    seq |-> seq, alert |-> budgetAlert]>> \o result
    /\ alerts' = EmittedAlerts(seq, budgetAlert)

Checked(seq, transaction, budget, data) ==
    Noted(seq, transaction, budget, data, checkBudgetStatus(budget, data, transaction))

Queried(seq, transaction, budget, ok) ==
    Checked(seq, transaction, budget,
            IF budget = NoBudget THEN NoData ELSE MonthQuery(txStore, transaction.category, ok))

\* processTransaction, step 2, for an incoming transaction
CheckBudget(transaction, okBudget, okMonth) ==
    /\ received < MaxEvents
    /\ received' = received + 1
    /\ Queried(received + 1, transaction, BudgetQuery(budgets, okBudget), okMonth)
    /\ UNCHANGED <<budgetVars, kafkaSseUrl, channel, eventSource, transports, txStore, evals,
                   delivered, anomalies, lastCall, lastMsg, now>>

NextBudgetStatus ==
    \E cat \in Categories, date \in Dates, okBudget \in BOOLEAN, okMonth \in BOOLEAN :
        CheckBudget(Spending(cat, date), okBudget, okMonth) /\ UNCHANGED appVars

SpecBudgetStatus == InitBudgetStatus /\ [][NextBudgetStatus]_vars

(***************************************************************************)
(* C11: checkBudgetStatus produces no alert when the owner has no active   *)
(* budget or the budgeted amount of the transaction's category is 0, and   *)
(* one evaluation emits at most one alert, never a warning and an          *)
(* exceeded alert together.                                                *)
(***************************************************************************)
C11_NoAlertWithoutBudget ==
    /\ \A i \in DOMAIN result :
          (\/ ActiveRows(budgets, userId) = {}
           \/ result[i].budget[result[i].transaction.category.s] = 0)
              => /\ result[i].alert = NoAlert
                 /\ \A j \in DOMAIN alerts : alerts[j].seq # result[i].seq
    /\ \A i, j \in DOMAIN alerts : alerts[i].seq = alerts[j].seq => i = j

\* an evaluation without an active budget, and one of a category budgeted at 0
\* with spending stored, have returned; another evaluation has alerted
C11_Witness ==
    /\ \E i \in DOMAIN result :
          /\ result[i].budget # NoBudget
          /\ result[i].budget.transport = 0
          /\ result[i].transaction.category = Str("transport")
          /\ result[i].data.ok /\ result[i].data.rows # <<>>
          /\ result[i].alert = NoAlert
    /\ \E i \in DOMAIN result : result[i].alert.status = "exceeded"

(***************************************************************************)
(* C12: with a budgeted amount above 0 and percentUsed = spent / budgeted  *)
(* * 100, where spent is the sum of the amounts the month's query          *)
(* returned, the status is exceeded exactly when percentUsed >= 100, a     *)
(* warning exactly when 80 <= percentUsed < 100, and there is no alert     *)
(* exactly when percentUsed < 80; the alert carries the category and the   *)
(* budgeted and spent amounts.                                             *)
(***************************************************************************)
\* the status the thresholds give to spent out of budgeted, both in hundredths
StatusOf(spent, budgeted) ==
    IF 100 * spent >= 100 * budgeted THEN "exceeded"
    ELSE IF 100 * spent >= 80 * budgeted THEN "warning"
    ELSE "none"

ThresholdsKept(r, spent, budgeted) ==
    /\ r.alert.status = StatusOf(spent, budgeted)
    /\ r.alert # NoAlert =>
          /\ r.alert.category = r.transaction.category.s
          /\ r.alert.budgeted = ParseFloat(budgeted)
          /\ r.alert.spent = ParseFloat(spent)

C12_Thresholds ==
    \A i \in DOMAIN result :
        (result[i].budget # NoBudget /\ result[i].budget[result[i].transaction.category.s] > 0)
            => ThresholdsKept(result[i], SeqSum(result[i].data.rows),
                              result[i].budget[result[i].transaction.category.s])

(***************************************************************************)
(* C13: the spent total checkBudgetStatus compares with the budget is the  *)
(* sum of the owner's same-category rows dated inside the budget period    *)
(* (the month of a monthly budget, the year of a yearly one) that holds    *)
(* the incoming transaction's date, whatever the wall-clock month is.      *)
(***************************************************************************)
\* the dates of the model lie in one year
InPeriod(period, d, date) == period = "yearly" \/ MonthOf(d) = MonthOf(date)

PeriodSpent(period, cat, date) ==
    SeqSum(AmountsOf(SelectSeq(txStore, LAMBDA r : /\ r.user_id = userId
                                                   /\ r.category = cat
                                                   /\ InPeriod(period, r.transaction_date, date))))

C13_SpentOfTransactionPeriod ==
    \A i \in DOMAIN result :
        (result[i].budget # NoBudget /\ result[i].data.ok)
            => SeqSum(result[i].data.rows) =
                   PeriodSpent(result[i].budget.period, result[i].transaction.category.s,
                               result[i].transaction.transaction_date.s)

(***************************************************************************)
(* SpecScenarioB: scenario B's budget and prior spend stored, the pipeline *)
(* under either transport; groceries transactions of 100 are written to    *)
(* the store, or carried by the bridged stream.                            *)
(***************************************************************************)
\* scenario B before the new transaction: 750 spent on groceries in the month
PriorSpend == SubSeq(ScenarioB, 1, 4)

\* the new transaction as the bridged stream carries it
NewSpending ==
    Raw(TRUE, "object", NotObj("undefined"), NotObj("undefined"),
        Tx(Str("k1"), Str(userId), Str("groceries"), Num(10000), Str("2026-10-20")))

InitScenarioB ==
    /\ budgets = <<BudgetRow(userId, [groceries |-> 100000, transport |-> 50000])>>
    /\ income = [u \in Users |-> 0]
    /\ bproc = [c \in Clients |-> Idle]
    /\ ocrRuns = [c \in Clients |-> NoRun]
    /\ kafkaSseUrl \in BOOLEAN
    /\ txStore = PriorSpend
    /\ now = "2026-10"
    /\ NewPipeline
    /\ NewApp

NextScenarioB ==
    \/ \E created \in BOOLEAN : subscribe(created) /\ UNCHANGED <<budgetVars, txStore, result, appVars>>
    \/ unsubscribe /\ UNCHANGED <<budgetVars, txStore, result, appVars>>
    \/ InsertTransaction(Row(ToString(Len(txStore) + 1), userId, "groceries", 10000, "2026-10-20"))
    \/ \E i \in DOMAIN transports : ChannelInsert(i)
    \/ \E i \in DOMAIN transports : SseMessage(i, NewSpending)
    \/ Evaluate

SpecScenarioB == InitScenarioB /\ [][NextScenarioB]_vars

(***************************************************************************)
(* C14: under either transport the spent total an incoming transaction is  *)
(* evaluated with holds that transaction's amount exactly once: with       *)
(* groceries budgeted at 1000, 750 spent before and a new groceries        *)
(* transaction of 100, an evaluation whose queries succeed sees 850 spent, *)
(* 85 percent used, and emits a warning.                                   *)
(***************************************************************************)
\* the month's spending on the transaction's category without the transaction's
\* own row, and the transaction's amount
DueSpent(tx) ==
    SeqSum(AmountsOf(SelectSeq(txStore, LAMBDA r : /\ r.user_id = userId
                                                   /\ Str(r.category) = tx.category
                                                   /\ MonthOf(r.transaction_date) = now
                                                   /\ Str(r.id) # tx.id)))
        + tx.amount.n

DueAlert(e, due) ==
    IF StatusOf(due, e.budget[e.tx.category.s]) = "none" THEN alerts' = alerts
    ELSE /\ Len(alerts') = Len(alerts) + 1
         /\ alerts'[Len(alerts')].seq = e.seq
         /\ alerts'[Len(alerts')].alert.status = StatusOf(due, e.budget[e.tx.category.s])
         /\ alerts'[Len(alerts')].alert.spent = ParseFloat(due)

C14_SpentIncludesIncoming ==
    [][\A e \in evals :
          (/\ e.pc = "monthQuery"
           /\ result' # result
           /\ Head(result') = [failed |-> {}, seq |-> e.seq])
              => DueAlert(e, DueSpent(e.tx))]_vars

(***************************************************************************)
(* SpecRecentAlerts: the alerts the pipeline emits, delivered to the       *)
(* onBudgetAlert callback of RealtimeProvider.  A run starts after some    *)
(* categories have alerted once each, and delivers up to MaxAlerts more.   *)
(***************************************************************************)
MaxAlerts == 3
MaxRecent == 10

\* TransactionCategory
AlertCategories ==
    <<"groceries", "transport", "rent", "entertainment", "savings", "emergency_fund",
      "utilities", "healthcare", "education", "dining", "shopping", "other">>

\* alerts of 85 and of 120 percent of 1000
Warning(cat) == BudgetAlert(cat, FromInt(1000), FromInt(850), FromInt(85), "warning")

Exceeded(cat) == BudgetAlert(cat, FromInt(1000), FromInt(1200), FromInt(120), "exceeded")

\* an operator that keeps the earlier alerts of the category
Unfiltered(prev, alert) == prev

\* prev.filter(a => a.category !== alert.category)
Filtered(prev, alert) == SelectSeq(prev, LAMBDA a : a.category # alert.category)

\* q.slice(0, n)
Slice(q, n) == SubSeq(q, 1, Least(Len(q), n))

\* the updater onBudgetAlert hands to setRecentAlerts
onBudgetAlert(prev, alert) == Slice(<<alert>> \o Filtered(prev, alert), MaxRecent)

\* emitBudgetAlert(alert): the callback is called, and its update applied
emitBudgetAlert(alert) ==
    /\ received < MaxAlerts
    /\ received' = received + 1
    /\ alerts' = Append(alerts, [seq |-> Len(alerts) + 1, alert |-> alert])
    /\ recentAlerts' = onBudgetAlert(recentAlerts, alert)
    /\ UNCHANGED <<budgetVars, kafkaSseUrl, channel, eventSource, transports, txStore, evals,
                   delivered, anomalies, lastCall, lastMsg, now, result, listeners, dispatch,
                   calls, removed, chat, chatHistory, uiVars>>

\* the first k categories have alerted once each, in order
AlertedOnce(k) ==
    /\ alerts = [i \in 1..k |-> [seq |-> i, alert |-> Warning(AlertCategories[i])]]
    /\ recentAlerts = [i \in 1..Least(k, MaxRecent) |-> Warning(AlertCategories[k + 1 - i])]

InitRecentAlerts ==
    /\ budgets = <<>>
    /\ income = [u \in Users |-> 0]
    /\ bproc = [c \in Clients |-> Idle]
    /\ ocrRuns = [c \in Clients |-> NoRun]
    /\ kafkaSseUrl = FALSE
    /\ txStore = <<>>
    /\ now = "2026-10"
    /\ channel = 0
    /\ eventSource = 0
    /\ transports = <<>>
    /\ evals = {}
    /\ delivered = <<>>
    /\ anomalies = <<>>
    /\ received = 0
    /\ lastCall = [op |-> "new", ops |-> 0, wasOpen |-> FALSE]
    /\ lastMsg = [n |-> 0, raw |-> NoMessage]
    /\ result = <<>>
    /\ \E k \in {0, 5, MaxRecent - 1, MaxRecent, MaxRecent + 1} : AlertedOnce(k)
    /\ listeners = [kind \in Signals |-> <<>>]
    /\ dispatch = NoDispatch
    /\ calls = <<>>
    /\ removed = {}
    /\ chat = NoChat
    /\ chatHistory = <<>>
    /\ NewUi

\* the categories that alert during a run: two that alerted before, two that may not have
Alerting == {"groceries", "transport", "shopping", "other"}

NextRecentAlerts ==
    \E cat \in Alerting :
        \/ emitBudgetAlert(Warning(cat))
        \/ emitBudgetAlert(Exceeded(cat))

SpecRecentAlerts == InitRecentAlerts /\ [][NextRecentAlerts]_vars

(***************************************************************************)
(* C15: recentAlerts holds at most 10 entries and at most one per          *)
(* category; each entry is the alert delivered last for its category, and  *)
(* an alert stands first when it arrives: groceries at 85 percent and then *)
(* at 120 percent leave one groceries entry, of status exceeded.           *)
(***************************************************************************)
LastFor(cat) ==
    alerts[CHOOSE i \in DOMAIN alerts :
              /\ alerts[i].alert.category = cat
              /\ \A j \in DOMAIN alerts : alerts[j].alert.category = cat => j <= i].alert

C15_RecentAlerts ==
    /\ Len(recentAlerts) <= 10
    /\ \A i, j \in DOMAIN recentAlerts :
          recentAlerts[i].category = recentAlerts[j].category => i = j
    /\ \A i \in DOMAIN recentAlerts :
          /\ \E j \in DOMAIN alerts : alerts[j].alert.category = recentAlerts[i].category
          /\ recentAlerts[i] = LastFor(recentAlerts[i].category)
    /\ alerts # <<>> => /\ recentAlerts # <<>>
                        /\ recentAlerts[1] = alerts[Len(alerts)].alert

\* groceries alerted at 85 and then at 120 percent, and ten entries are held
\* while eleven categories have alerted
C15_Witness ==
    /\ \E i, j \in DOMAIN alerts :
          /\ i < j
          /\ alerts[i].alert = Warning("groceries")
          /\ alerts[j].alert = Exceeded("groceries")
    /\ \E i \in DOMAIN recentAlerts : recentAlerts[i] = Exceeded("groceries")
    /\ Len(recentAlerts) = 10
    /\ Cardinality({alerts[i].alert.category : i \in DOMAIN alerts}) = 11

(***************************************************************************)
(* C16: when the query for the recent transactions or for the active       *)
(* budget fails during an evaluation, the run goes on to its end: that     *)
(* evaluation emits no signal, the transaction was delivered to the        *)
(* listeners before, the other evaluation of the event still runs, and     *)
(* later events are evaluated as well.                                     *)
(***************************************************************************)
C16_FailedQueryNoSignal ==
    /\ \A i \in DOMAIN result :
          /\ "recentTransactions" \in result[i].failed
                => \A j \in DOMAIN anomalies : anomalies[j].seq # result[i].seq
          /\ "budget" \in result[i].failed
                => \A j \in DOMAIN alerts : alerts[j].seq # result[i].seq
          /\ \E j \in DOMAIN delivered : delivered[j].seq = result[i].seq
    /\ \A e \in evals : \E j \in DOMAIN delivered : delivered[j].seq = e.seq
    /\ \A k \in 1..received :
          \/ \E e \in evals : e.seq = k
          \/ \E i \in DOMAIN result : result[i].seq = k

\* the first event's history query failed and its budget evaluation alerted; the
\* second event's budget query failed after its anomaly was emitted
C16_Witness ==
    /\ \E i \in DOMAIN result :
          /\ result[i] = [failed |-> {"recentTransactions"}, seq |-> 1]
          /\ \E j \in DOMAIN alerts : alerts[j].seq = 1
    /\ \E i \in DOMAIN result :
          /\ result[i] = [failed |-> {"budget"}, seq |-> 2]
          /\ \E j \in DOMAIN anomalies : anomalies[j].seq = 2

(***************************************************************************)
(* SpecListeners: the listener Sets of a TransactionPipeline.  A Set keeps *)
(* its entries in insertion order; for .. of visits the entries that are   *)
(* in the Set when it comes to them, those added meanwhile included.       *)
(* Listeners add listeners and call disposers while they run.  The three   *)
(* Sets do not touch each other: a run works on one of them.               *)
(***************************************************************************)
MaxEntries == 3
MaxDispatches == 2

Functions == {"f", "g", "h"}

\* the functions in a Set
Registered(kind) == {listeners[kind][i].fn : i \in DOMAIN listeners[kind]}

\* the entries made so far: each add of a function the Set does not hold makes one
Entries == Cardinality(removed) + Len(listeners["transaction"]) + Len(listeners["anomaly"])
              + Len(listeners["budgetAlert"])

Emitting(kind) == ~dispatch.done /\ dispatch.kind = kind

\* a pipeline whose Set of the kind is the one the run works on
Watching(kind) == [NoDispatch EXCEPT !.kind = kind]

\* addTransactionListener(fn), addAnomalyListener(fn), addBudgetAlertListener(fn)
addListener(kind, fn) ==
    /\ Entries < MaxEntries
    /\ fn \notin Registered(kind)
    /\ listeners' = [listeners EXCEPT ![kind] = Append(@, [n |-> Entries + 1, fn |-> fn])]
    /\ UNCHANGED <<dispatch, calls, removed>>

\* the function an add returned: this.<kind>Listeners.delete(fn)
disposer(kind, fn) ==
    /\ fn \in Registered(kind)
    /\ listeners' = [listeners EXCEPT ![kind] = SelectSeq(@, LAMBDA en : en.fn # fn)]
    /\ removed' = removed \cup
          {[kind |-> kind, event |-> dispatch.event, n |-> listeners[kind][i].n] :
               i \in {j \in DOMAIN listeners[kind] : listeners[kind][j].fn = fn}}
    /\ dispatch' = IF Emitting(kind) THEN [dispatch EXCEPT !.gone = @ \cup {fn}] ELSE dispatch
    /\ UNCHANGED calls

\* emitTransaction, emitAnomaly, emitBudgetAlert up to the loop
emit(kind) ==
    /\ dispatch.done
    /\ dispatch.event < MaxDispatches
    /\ dispatch.kind = kind
    /\ dispatch' = [last |-> 0, kind |-> kind, event |-> dispatch.event + 1,
                    atStart |-> Registered(kind), gone |-> {}, done |-> FALSE]
    /\ UNCHANGED <<listeners, calls, removed>>

\* a loop that counts its way through the entries
ByIndex(entries, last, visited) ==
    {i \in DOMAIN entries : i = visited + 1}

\* for (const listener of this.<kind>Listeners): the entries the loop has not come to
Following(entries, last, visited) ==
    {i \in DOMAIN entries : entries[i].n > last}

Visited == Cardinality({i \in DOMAIN calls : calls[i].event = dispatch.event})

\* one turn of the loop: listener(payload), or the end of the loop
Turn(kind, entries, rest) ==
    IF rest = {}
    THEN /\ dispatch' = [dispatch EXCEPT !.done = TRUE]
         /\ UNCHANGED <<listeners, calls, removed>>
    ELSE /\ calls' = Append(calls, [kind |-> kind, event |-> dispatch.event,
                                    n |-> entries[CHOOSE i \in rest : \A j \in rest : i <= j].n,
                                    fn |-> entries[CHOOSE i \in rest : \A j \in rest : i <= j].fn])
         /\ dispatch' = [dispatch EXCEPT
                            !.last = entries[CHOOSE i \in rest : \A j \in rest : i <= j].n]
         /\ UNCHANGED <<listeners, removed>>

listenerLoop(kind) ==
    /\ Emitting(kind)
    /\ Turn(kind, listeners[kind], Following(listeners[kind], dispatch.last, Visited))

InitListeners ==
    /\ budgets = <<>>
    /\ income = [u \in Users |-> 0]
    /\ bproc = [c \in Clients |-> Idle]
    /\ ocrRuns = [c \in Clients |-> NoRun]
    /\ kafkaSseUrl = FALSE
    /\ txStore = <<>>
    /\ now = "2026-10"
    /\ NewPipeline
    /\ recentAlerts = <<>>
    /\ listeners = [kind \in Signals |-> <<>>]
    /\ dispatch \in {Watching(kind) : kind \in Signals}
    /\ calls = <<>>
    /\ removed = {}
    /\ chat = NoChat
    /\ chatHistory = <<>>
    /\ NewUi

NextListeners ==
    \/ \E fn \in Functions :
          /\ addListener(dispatch.kind, fn)
          /\ UNCHANGED <<budgetVars, pipeVars, txStore, result, recentAlerts, chat, chatHistory, uiVars>>
    \/ \E fn \in Functions :
          /\ disposer(dispatch.kind, fn)
          /\ UNCHANGED <<budgetVars, pipeVars, txStore, result, recentAlerts, chat, chatHistory, uiVars>>
    \/ emit(dispatch.kind) /\ UNCHANGED <<budgetVars, pipeVars, txStore, result, recentAlerts, chat, chatHistory, uiVars>>
    \/ listenerLoop(dispatch.kind)
          /\ UNCHANGED <<budgetVars, pipeVars, txStore, result, recentAlerts, chat, chatHistory, uiVars>>

SpecListeners == InitListeners /\ [][NextListeners]_vars

(***************************************************************************)
(* C17: when a disposer is called while a dispatch of its signal is in     *)
(* progress, the dispatch comes to its end, every listener that stays      *)
(* registered throughout is invoked exactly once for the event, no entry   *)
(* is invoked twice for it, and a removed listener is invoked for no later *)
(* event.                                                                  *)
(***************************************************************************)
CallsOf(event, fn) == {i \in DOMAIN calls : calls[i].event = event /\ calls[i].fn = fn}

C17_RemovalDuringDispatch ==
    /\ (dispatch.done /\ dispatch.event > 0) =>
          \A fn \in dispatch.atStart \ dispatch.gone :
              Cardinality(CallsOf(dispatch.event, fn)) = 1
    /\ \A i, j \in DOMAIN calls :
          (calls[i].event = calls[j].event /\ calls[i].n = calls[j].n) => i = j
    /\ \A i \in DOMAIN calls : \A r \in removed :
          r.n = calls[i].n => calls[i].event <= r.event

\* a dispatch over three listeners has ended, the second of them removed while the
\* first ran, and the next dispatch has invoked a listener
C17_Witness ==
    /\ dispatch.done
    /\ dispatch.event = 2
    /\ \E r \in removed :
          /\ r.event = 1
          /\ \A i \in DOMAIN calls : calls[i].n # r.n
          /\ \E i, j \in DOMAIN calls :
                /\ calls[i].event = 1 /\ calls[i].n < r.n
                /\ calls[j].event = 1 /\ calls[j].n > r.n
    /\ \E i \in DOMAIN calls : calls[i].event = 2

(***************************************************************************)
(* SpecOcr: runs of ocr-process, one after another, every call and every   *)
(* write of a run succeeding or failing.                                   *)
(***************************************************************************)
InitOcr ==
    /\ budgets \in {<<>>, OneBudget}
    /\ income \in [Users -> {0, 5000}]
    /\ bproc = [c \in Clients |-> Idle]
    /\ ocrRuns = [c \in Clients |-> NoRun]
    /\ kafkaSseUrl = FALSE
    /\ txStore = <<>>
    /\ now = "2026-10"
    /\ NewPipeline
    /\ NewApp

\* the client whose runs SpecOcr follows
Uploader == 1

NextOcr ==
    \/ \E u \in Users, outcome \in OcrOutcomes :
          OcrExtract(Uploader, u, outcome) /\ UNCHANGED <<pipeVars, txStore, result, appVars>>
    \/ \E ok \in BOOLEAN :
          OcrStoreText(Uploader, ok) /\ UNCHANGED <<pipeVars, txStore, result, appVars>>
    \/ \E outcome \in ParseOutcomes :
          OcrParse(Uploader, outcome) /\ UNCHANGED <<pipeVars, txStore, result, appVars>>
    \/ \E ok \in BOOLEAN :
          OcrInsertTransactions(Uploader, ok) /\ UNCHANGED <<pipeVars, txStore, result, appVars>>
    \/ OcrReadIncome(Uploader) /\ UNCHANGED <<pipeVars, txStore, result, appVars>>
    \/ OcrCheckBudget(Uploader) /\ UNCHANGED <<pipeVars, txStore, result, appVars>>
    \/ \E outcome \in SuggestOutcomes :
          OcrGenerate(Uploader, outcome) /\ UNCHANGED <<pipeVars, txStore, result, appVars>>
    \/ \E alloc \in BudgetAllocs, ok \in BOOLEAN :
          OcrInsertBudget(Uploader, alloc, ok) /\ UNCHANGED <<pipeVars, txStore, result, appVars>>
    \/ \E ok \in BOOLEAN :
          OcrMarkProcessed(Uploader, ok) /\ UNCHANGED <<pipeVars, txStore, result, appVars>>

SpecOcr == InitOcr /\ [][NextOcr]_vars

(***************************************************************************)
(* C18: when a step of a run of ocr-process fails (the OCR call, a         *)
(* completion call, a write to the store), the run makes no later step and *)
(* ends with an error response, never with the success response.           *)
(***************************************************************************)
C18_FailedStepEndsRun ==
    \A c \in Clients :
        /\ ~bproc[c].late
        /\ ocrRuns[c].failed => (~ocrRuns[c].late /\ ocrRuns[c].status # 200)

(***************************************************************************)
(* C19: the suggest-budget step inserts a budget only when, at that        *)
(* moment, the owner's income is above 0 and the owner has no active       *)
(* budget: a run of ocr-process creates or changes no budget row of an     *)
(* owner who has an active budget or no income.                            *)
(***************************************************************************)
C19_SuggestOnlyWithoutBudget ==
    [][\A c \in Clients :
          (bproc[c].pc \in {"ocr_text", "ocr_parse", "ocr_rows", "ocr_income", "ocr_check",
                            "ocr_generate", "ocr_insert", "ocr_mark"}
              /\ bproc'[c] # bproc[c] /\ budgets' # budgets)
             => /\ income[bproc[c].user_id] > 0
                /\ ActiveRows(budgets, bproc[c].user_id) = {}]_vars

(***************************************************************************)
(* SpecChat: runs of the gemini-chat function, one after another.  The     *)
(* handler calls the completion service, stores the user message, and      *)
(* returns a stream whose start() reads the reply chunk by chunk and       *)
(* stores it at the end.                                                   *)
(***************************************************************************)
MaxChats == 3

Message(run, role) == [run |-> run, role |-> role]

\* the run is over: failed tells whether its completion call or its stream failed
ChatEnds(failed) ==
    chat' = [pc |-> "idle", run |-> chat.run, fullResponse |-> FALSE,
             ended |-> Append(chat.ended, [run |-> chat.run, failed |-> failed])]

\* the completion call: the fetch rejects or the reply is not ok (status 500), or
\* the reply is ok
ChatCall(ok) ==
    /\ chat.pc = "idle"
    /\ chat.run < MaxChats
    /\ IF ok
       THEN chat' = [chat EXCEPT !.pc = "saveUser", !.run = chat.run + 1]
       ELSE chat' = [chat EXCEPT !.run = chat.run + 1,
                                 !.ended = Append(@, [run |-> chat.run + 1, failed |-> TRUE])]
    /\ UNCHANGED chatHistory

\* insert the user message; the result is not looked at.  The Response is returned
ChatSaveUser(ok) ==
    /\ chat.pc = "saveUser"
    /\ chatHistory' = IF ok THEN Append(chatHistory, Message(chat.run, "user")) ELSE chatHistory
    /\ chat' = [chat EXCEPT !.pc = "read"]

\* reader.read() in start(): a chunk with text, a chunk without, the end of the
\* stream, or a failure (controller.error)
ChatRead(outcome) ==
    /\ chat.pc = "read"
    /\ IF outcome = "text" THEN chat' = [chat EXCEPT !.fullResponse = TRUE]
       ELSE IF outcome = "blank" THEN chat' = chat
       ELSE IF outcome = "error" THEN ChatEnds(TRUE)
       ELSE IF chat.fullResponse THEN chat' = [chat EXCEPT !.pc = "saveModel"]
       ELSE ChatEnds(FALSE)
    /\ UNCHANGED chatHistory

\* insert the model's reply, the result not looked at; controller.close()
ChatSaveModel(ok) ==
    /\ chat.pc = "saveModel"
    /\ chatHistory' = IF ok THEN Append(chatHistory, Message(chat.run, "model")) ELSE chatHistory
    /\ ChatEnds(FALSE)

InitChat ==
    /\ budgets = <<>>
    /\ income = [u \in Users |-> 0]
    /\ bproc = [c \in Clients |-> Idle]
    /\ ocrRuns = [c \in Clients |-> NoRun]
    /\ kafkaSseUrl = FALSE
    /\ txStore = <<>>
    /\ now = "2026-10"
    /\ NewPipeline
    /\ NewApp

ChatFrame == UNCHANGED <<budgetVars, pipeVars, txStore, result, recentAlerts,
                         listeners, dispatch, calls, removed, uiVars>>

NextChat ==
    \/ \E ok \in BOOLEAN : ChatCall(ok) /\ ChatFrame
    \/ \E ok \in BOOLEAN : ChatSaveUser(ok) /\ ChatFrame
    \/ \E outcome \in {"text", "blank", "done", "error"} : ChatRead(outcome) /\ ChatFrame
    \/ \E ok \in BOOLEAN : ChatSaveModel(ok) /\ ChatFrame

SpecChat == InitChat /\ [][NextChat]_vars

(***************************************************************************)
(* C20: the user message and the model's reply of a chat request are       *)
(* stored together: once a run has ended, chat_history does not hold its   *)
(* user message without its reply, and a run whose completion call or      *)
(* stream failed has stored neither.                                       *)
(***************************************************************************)
Stored(run, role) == \E i \in DOMAIN chatHistory : chatHistory[i] = Message(run, role)

C20_MessagesStoredTogether ==
    \A i \in DOMAIN chat.ended :
        /\ Stored(chat.ended[i].run, "user") => Stored(chat.ended[i].run, "model")
        /\ chat.ended[i].failed =>
              (~Stored(chat.ended[i].run, "user") /\ ~Stored(chat.ended[i].run, "model"))

(***************************************************************************)
(* C2: after any sequence of subscribe() and unsubscribe() calls at most  *)
(* one transport connection of the instance is open, and with a bridged   *)
(* URL configured no change-feed channel is ever opened.                  *)
(***************************************************************************)
C2_AtMostOneTransport ==
    /\ Cardinality(OpenTransports) <= 1
    /\ kafkaSseUrl => \A i \in DOMAIN transports : transports[i].kind # "channel"

(***************************************************************************)
(* C3: once unsubscribe() has returned, no transport connection the       *)
(* instance opened is still open; and an unsubscribe() called while no    *)
(* transport was active made no transport operation.                      *)
(***************************************************************************)
C3_UnsubscribeClosesAll ==
    lastCall.op = "unsubscribe" =>
        /\ OpenTransports = {}
        /\ ~lastCall.wasOpen => lastCall.ops = 0

(***************************************************************************)
(* C4: between the return of unsubscribe() and the next subscribe(), no    *)
(* event is handed to the instance's listeners.                            *)
(***************************************************************************)
C4_NoDeliveryAfterUnsubscribe ==
    [][(lastCall.op = "unsubscribe" /\ lastCall'.op = "unsubscribe")
          => (delivered' = delivered /\ received' = received)]_vars

(***************************************************************************)
(* C5: a message of the bridged stream is delivered exactly when it is    *)
(* valid JSON whose candidate has string id, owner id, date and category, *)
(* the pipeline's owner and an amount that is a number or a numeric       *)
(* string; it is then delivered with that amount as a number.  Any other  *)
(* message invokes no listener and starts no evaluation.                   *)
(***************************************************************************)
NumericString(v) == v.t = "string" /\ \E a \in Amounts : Numeral(a) = v.s

WellFormed(raw) ==
    /\ raw.json
    /\ Candidate(raw).t = "object"
    /\ \A k \in {"id", "user_id", "transaction_date", "category"} : Candidate(raw).f[k].t = "string"
    /\ Candidate(raw).f.user_id.s = userId
    /\ Candidate(raw).f.amount.t = "number" \/ NumericString(Candidate(raw).f.amount)

C5_OnlyValidTransactionsDelivered ==
    [][lastMsg'.n # lastMsg.n =>
          IF WellFormed(lastMsg'.raw)
          THEN /\ Len(delivered') = Len(delivered) + 1
               /\ delivered'[Len(delivered')].tx.amount.t = "number"
               /\ \E a \in Amounts : delivered'[Len(delivered')].tx.amount.n = a
          ELSE delivered' = delivered /\ evals' = evals]_vars

(***************************************************************************)
(* C6: transaction listeners see the events in the order the transport    *)
(* handed them over: the k-th call of emitTransaction carries the k-th    *)
(* event received, also while earlier evaluations still await queries.    *)
(***************************************************************************)
C6_DeliveryInReceiveOrder ==
    /\ Len(delivered) = received
    /\ \A k \in DOMAIN delivered : delivered[k].seq = k

C6_Witness ==
    /\ Len(delivered) >= 2
    /\ \E e \in evals : e.seq = 1 /\ e.pc = "detectAnomaly"

(***************************************************************************)
(* The owner's stored sample of a category, and its statistics, as the     *)
(* claims state them: n values, their sum and their sum of squares.        *)
(***************************************************************************)
StoredSample(cat) ==
    AmountsOf(SelectSeq(txStore, LAMBDA r : r.user_id = userId /\ r.category = cat))

SumOfSquares(q) == SeqSum([i \in DOMAIN q |-> q[i] * q[i]])

\* n^2 * (population variance)
VarianceTimesN2(q) == Len(q) * SumOfSquares(q) - SeqSum(q) * SeqSum(q)

\* |amount - mean| > k * stdDev, with stdDev > 0
Beyond(q, a, k) ==
    /\ VarianceTimesN2(q) > 0
    /\ (Len(q) * a - SeqSum(q)) * (Len(q) * a - SeqSum(q)) > k * k * VarianceTimesN2(q)

(***************************************************************************)
(* C7: with fewer than 10 stored transactions of the owner and category,  *)
(* or a history query that returned nothing, detectAnomaly returns        *)
(* isAnomaly = false and severity = low whatever the amount, and nothing  *)
(* is emitted to the anomaly listeners.                                    *)
(***************************************************************************)
C7_InsufficientDataNeverAnomalous ==
    \A i \in DOMAIN result :
        (~result[i].ok \/ Len(StoredSample("transport")) < 10) =>
            /\ ~result[i].anomaly.isAnomaly
            /\ result[i].anomaly.severity = "low"
            /\ \A j \in DOMAIN anomalies : anomalies[j].seq # result[i].seq

C7_Witness ==
    \E i \in DOMAIN result :
        /\ result[i].ok
        /\ Len(StoredSample("transport")) = 9
        /\ VarianceTimesN2(StoredSample("transport")) > 0
        /\ result[i].anomaly.transaction.amount.n = 300

(***************************************************************************)
(* C8: with at least 10 samples the result follows the z-score over the   *)
(* population mean and standard deviation: |z| > 3 is an anomaly of       *)
(* severity high, 2 < |z| <= 3 one of severity medium, anything else      *)
(* (every zero-variance sample included) is no anomaly.                    *)
(***************************************************************************)
C8_ZScoreClassification ==
    \A i \in DOMAIN result :
        LET q == StoredSample("transport")
            a == result[i].anomaly.transaction.amount.n
            r == result[i].anomaly
        IN  (result[i].ok /\ Len(q) >= 10) =>
                /\ Beyond(q, a, 3) => (r.isAnomaly /\ r.severity = "high")
                /\ (Beyond(q, a, 2) /\ ~Beyond(q, a, 3)) => (r.isAnomaly /\ r.severity = "medium")
                /\ ~Beyond(q, a, 2) => ~r.isAnomaly
                /\ r.isAnomaly <=> \E j \in DOMAIN anomalies : anomalies[j].seq = result[i].seq

(***************************************************************************)
(* C9: scenario A.  The first transaction of 300 written after the twelve *)
(* stored transport transactions (mean 200, standard deviation 20) is,    *)
(* whenever the pipeline reports it, reported with severity high and      *)
(* zScore 5.0: its own row is no part of its sample.                       *)
(***************************************************************************)
C9_ScenarioAScoresFive ==
    \A j \in DOMAIN anomalies :
        anomalies[j].anomaly.transaction.id = Str("13") =>
            /\ anomalies[j].anomaly.severity = "high"
            /\ FEqual(anomalies[j].anomaly.zScore, 5)

(***************************************************************************)
(* C10: for a fixed sample of at least 10 amounts with non-zero standard  *)
(* deviation, |zScore| never decreases as the incoming amount grows       *)
(* (C10_AbsZMonotone, as claimed); it does so for amounts at or above the *)
(* sample mean (C10_AbsZMonotoneAboveMean).                                *)
(***************************************************************************)
Scored(i) ==
    /\ result[i].ok
    /\ Len(StoredSample("transport")) >= 10
    /\ VarianceTimesN2(StoredSample("transport")) > 0

AmountOf(i) == result[i].anomaly.transaction.amount.n

\* |z_i| <= |z_j|, both scored against the same sample
AbsZLeq(i, j) == FAbsLeq(result[i].anomaly.zScore, result[j].anomaly.zScore)

AtOrAboveMean(i) ==
    SeqSum(StoredSample("transport")) <= Len(StoredSample("transport")) * AmountOf(i)

C10_AbsZMonotone ==
    \A i, j \in DOMAIN result :
        (Scored(i) /\ Scored(j) /\ AmountOf(i) < AmountOf(j)) => AbsZLeq(i, j)

C10_AbsZMonotoneAboveMean ==
    \A i, j \in DOMAIN result :
        (Scored(i) /\ Scored(j) /\ AmountOf(i) < AmountOf(j) /\ AtOrAboveMean(i))
            => AbsZLeq(i, j)

C10_Witness ==
    \E i, j \in DOMAIN result :
        /\ Scored(i) /\ Scored(j)
        /\ AmountOf(i) < AmountOf(j)
        /\ AtOrAboveMean(i)
        /\ ~AbsZLeq(j, i)

(***************************************************************************)
(* SpecChatPipe: one ChatPipeline, its subscriptions and the events of     *)
(* their EventSources.  An entry of chatCalls stands for the callback and  *)
(* the listeners of one event, invoked together by the handler.            *)
(***************************************************************************)
MaxSubscriptions == 2
MaxChatEvents == 4

\* what the data of a message of the chat stream may be
ChatData == {"chunk", "chunkNoText", "done", "error", "errorNoText", "malformed"}

Invoked(sub, event) == Append(chatCalls, [event |-> event, sub |-> sub])

\* ChatPipeline.unsubscribe: closes the EventSource the field holds
Unsubscribed(pipe) ==
    [pipe EXCEPT !.eventSource = 0, !.open = pipe.open \ {pipe.eventSource}]

\* ChatPipeline.subscribe with VITE_API_BASE_URL configured
ChatPipelineSubscribe ==
    /\ chatPipe.made < MaxSubscriptions
    /\ chatPipe' = [eventSource |-> chatPipe.made + 1, open |-> chatPipe.open \cup {chatPipe.made + 1},
                    made |-> chatPipe.made + 1]
    /\ UNCHANGED chatCalls

\* the caller's unsubscribe()
ChatPipelineUnsubscribe ==
    /\ chatPipe.eventSource # 0
    /\ chatPipe' = Unsubscribed(chatPipe)
    /\ UNCHANGED chatCalls

\* eventSource.onmessage of the EventSource of subscription sub
ChatOnMessage(sub, data) ==
    /\ sub \in chatPipe.open
    /\ Len(chatCalls) < MaxChatEvents
    /\ IF data = "chunk"
       THEN chatCalls' = Invoked(sub, "chunk") /\ UNCHANGED chatPipe
       ELSE IF data \in {"done", "error"}
       THEN chatCalls' = Invoked(sub, data) /\ chatPipe' = Unsubscribed(chatPipe)
       ELSE UNCHANGED <<chatPipe, chatCalls>>

\* eventSource.onerror: the error callback and listeners are invoked and the
\* EventSource is left as the browser leaves it, reconnecting or, when the
\* failure is fatal, closed
ChatOnError(sub, fatal) ==
    /\ sub \in chatPipe.open
    /\ Len(chatCalls) < MaxChatEvents
    /\ chatCalls' = Invoked(sub, "error")
    /\ chatPipe' = IF fatal THEN [chatPipe EXCEPT !.open = @ \ {sub}] ELSE chatPipe

InitChatPipe == InitChat

ChatPipeFrame == UNCHANGED <<budgetVars, pipeVars, txStore, result, recentAlerts,
                             listeners, dispatch, calls, removed, chat, chatHistory,
                             extRuns, documents, budgetsBefore, chatPage, manager,
                             provider, txPage>>

NextChatPipe ==
    \/ ChatPipelineSubscribe /\ ChatPipeFrame
    \/ ChatPipelineUnsubscribe /\ ChatPipeFrame
    \/ \E sub \in 1..MaxSubscriptions, data \in ChatData : ChatOnMessage(sub, data) /\ ChatPipeFrame
    \/ \E sub \in 1..MaxSubscriptions, fatal \in BOOLEAN : ChatOnError(sub, fatal) /\ ChatPipeFrame

SpecChatPipe == InitChatPipe /\ [][NextChatPipe]_vars

(***************************************************************************)
(* C21: a subscription of the ChatPipeline gets one terminal event, done   *)
(* or error, and nothing is invoked for it afterwards: no entry of         *)
(* chatCalls follows a done or error entry of the same subscription.       *)
(***************************************************************************)
Terminal == {"done", "error"}

C21_OneTerminalEvent ==
    \A i, j \in DOMAIN chatCalls :
        (i < j /\ chatCalls[i].sub = chatCalls[j].sub) => chatCalls[i].event \notin Terminal

(***************************************************************************)
(* SpecServices: requests served by the ocr-process function (service      *)
(* "ocr") or by the gemini-chat function (service "completion"), one after *)
(* another, as far as their call of the external service.  A behaviour     *)
(* follows one service.  elapsed tells whether the service's recovery      *)
(* timeout has passed since the request before.                            *)
(***************************************************************************)
MaxRequests == 6

\* the run of one request: the number of calls it made to the dependency, whether
\* it ended as a failure, and whether the steps after the call were executed
Served(valid, elapsed, invoked, failed, later) ==
    [failed |-> failed, valid |-> valid, elapsed |-> elapsed, invoked |-> invoked, later |-> later]

\* the handler: a request without its required fields is answered 400 before any
\* call; otherwise one fetch, and a reply that is not ok is thrown (500)
Handled(valid, elapsed, ok) ==
    IF ~valid THEN Served(valid, elapsed, 0, TRUE, FALSE)
    ELSE Served(valid, elapsed, 1, ~ok, ok)

Serve(service, valid, elapsed, ok) ==
    /\ extRuns.service \in {"", service}
    /\ Len(extRuns.log) < MaxRequests
    /\ extRuns' = [service |-> service, log |-> Append(extRuns.log, Handled(valid, elapsed, ok))]

\* ocr-process up to the OCR call
OcrProcess(valid, elapsed, ok) == Serve("ocr", valid, elapsed, ok)

\* gemini-chat up to the completion call
GeminiChat(valid, elapsed, ok) == Serve("completion", valid, elapsed, ok)

InitServices == InitChat

ServicesFrame == UNCHANGED <<budgetVars, pipeVars, txStore, result, recentAlerts,
                             listeners, dispatch, calls, removed, chat, chatHistory,
                             chatPipe, chatCalls, documents, budgetsBefore, chatPage,
                             manager, provider, txPage>>

NextServices ==
    \/ \E valid, elapsed, ok \in BOOLEAN : OcrProcess(valid, elapsed, ok) /\ ServicesFrame
    \/ \E valid, elapsed, ok \in BOOLEAN : GeminiChat(valid, elapsed, ok) /\ ServicesFrame

SpecServices == InitServices /\ [][NextServices]_vars

(***************************************************************************)
(* C22: calls of an external service go through the service's circuit      *)
(* breaker: the request that follows threshold failed calls in a row (5    *)
(* for the completion service, 3 for OCR), before the recovery timeout has *)
(* passed, fails without a call of the dependency.                         *)
(***************************************************************************)
Threshold == [ocr |-> 3, completion |-> 5]

\* the k requests before request i each called the dependency and failed, and
\* no recovery timeout passed between them
FailedInARow(log, i, k) ==
    /\ i > k
    /\ \A j \in (i - k)..(i - 1) : log[j].invoked > 0 /\ log[j].failed
    /\ \A j \in (i - k + 1)..(i - 1) : ~log[j].elapsed

C22_BreakerOpens ==
    \A i \in DOMAIN extRuns.log :
        (FailedInARow(extRuns.log, i, Threshold[extRuns.service]) /\ ~extRuns.log[i].elapsed)
            => (extRuns.log[i].invoked = 0 /\ extRuns.log[i].failed)

(***************************************************************************)
(* C23: a call that fails is tried again until it succeeds or 3 attempts   *)
(* were made, never more; a request that fails validation makes no call;   *)
(* a request whose call failed executes none of the later steps.           *)
(***************************************************************************)
MaxAttempts == 3

C23_RetriedThenFails ==
    \A i \in DOMAIN extRuns.log :
        /\ extRuns.log[i].invoked <= MaxAttempts
        /\ ~extRuns.log[i].valid => extRuns.log[i].invoked = 0
        /\ (extRuns.log[i].valid /\ extRuns.log[i].failed) =>
              (extRuns.log[i].invoked = MaxAttempts /\ ~extRuns.log[i].later)

(***************************************************************************)
(* SpecDocuments: the documents of one owner, the updates ocr-process      *)
(* makes to them, and a subscribed DocumentProcessingPipeline receiving    *)
(* the UPDATE events in order.  rows[d] is the row's processed flag.       *)
(***************************************************************************)
MaxUpdates == 4

\* the UPDATE event of a row: payload.old and payload.new
Updated(d, old, new) == [id |-> d, old |-> old, processed |-> new]

DocumentUpdate(d, processed) ==
    /\ documents.updates < MaxUpdates
    /\ documents' = [documents EXCEPT !.rows[d] = processed,
                                      !.feed = Append(@, Updated(d, documents.rows[d], processed)),
                                      !.updates = @ + 1]

\* .update({ ocr_text: extractedText }).eq('id', documentId)
DocStoreText(d) == DocumentUpdate(d, documents.rows[d])

\* .update({ processed: true }).eq('id', documentId)
DocMarkProcessed(d) == DocumentUpdate(d, TRUE)

\* the handler calls back when doc.processed is set, with a callback given
OnProcessed(payload) == payload.processed

\* the postgres_changes handler of the pipeline, on the next event of the feed
DocumentOnUpdate ==
    /\ documents.feed # <<>>
    /\ documents' = [documents EXCEPT
           !.feed = Tail(@),
           !.called = IF OnProcessed(Head(documents.feed))
                      THEN Append(@, Head(documents.feed)) ELSE @]

InitDocuments == InitChat

DocumentsFrame == UNCHANGED <<budgetVars, pipeVars, txStore, result, recentAlerts,
                              listeners, dispatch, calls, removed, chat, chatHistory,
                              chatPipe, chatCalls, extRuns, budgetsBefore, chatPage,
                              manager, provider, txPage>>

NextDocuments ==
    \/ \E d \in DocumentIds : DocStoreText(d) /\ DocumentsFrame
    \/ \E d \in DocumentIds : DocMarkProcessed(d) /\ DocumentsFrame
    \/ DocumentOnUpdate /\ DocumentsFrame

SpecDocuments == InitDocuments /\ [][NextDocuments]_vars

(***************************************************************************)
(* C24: onDocumentProcessed is invoked only for an update in which the     *)
(* processed flag changes from false to true, so at most once per          *)
(* document, and never for an update that leaves the flag false.           *)
(***************************************************************************)
C24_OncePerDocument ==
    /\ \A i \in DOMAIN documents.called :
          ~documents.called[i].old /\ documents.called[i].processed
    /\ \A i, j \in DOMAIN documents.called :
          documents.called[i].id = documents.called[j].id => i = j

(***************************************************************************)
(* C25: the anomaly and budget-alert signals are emitted in the order of   *)
(* their source transactions: a signal of a transaction received earlier   *)
(* is never delivered after a signal of one received later, so the last    *)
(* alert of a category is the one of its latest transaction.               *)
(***************************************************************************)
InOrder(log) == \A i, j \in DOMAIN log : i < j => log[i].seq <= log[j].seq

C25_SignalsInOrder == InOrder(anomalies) /\ InOrder(alerts)

(***************************************************************************)
(* SpecCreateBudget: createBudget called by one client, one call after     *)
(* another, with either query failing.  budgetsBefore keeps the table as   *)
(* the call found it and whether the call threw.                           *)
(***************************************************************************)
\* createBudget throws deactivateError, or goes on to the insert
CreateBudgetCall(u, ok) ==
    /\ CreateBudgetDeactivate(Uploader, u, ok)
    /\ budgetsBefore' = [rows |-> budgets, failed |-> ~ok]

\* createBudget throws the insert's error, or returns the new row
CreateBudgetReturn(alloc, ok) ==
    /\ CreateBudgetInsert(Uploader, alloc, ok)
    /\ budgetsBefore' = [budgetsBefore EXCEPT !.failed = ~ok]

InitCreateBudget == InitOcr

CreateFrame == UNCHANGED <<pipeVars, txStore, result, recentAlerts, listeners,
                           dispatch, calls, removed, chat, chatHistory, chatPipe,
                           chatCalls, extRuns, documents, chatPage, manager, provider,
                           txPage>>

NextCreateBudget ==
    \/ \E u \in Users, ok \in BOOLEAN : CreateBudgetCall(u, ok) /\ CreateFrame
    \/ \E alloc \in BudgetAllocs, ok \in BOOLEAN : CreateBudgetReturn(alloc, ok) /\ CreateFrame

SpecCreateBudget == InitCreateBudget /\ [][NextCreateBudget]_vars

(***************************************************************************)
(* C26: createBudget is all-or-nothing: after a call that failed, at the   *)
(* deactivation or at the insert, the budgets are as they were before the  *)
(* call, and the owner's active budget is still active.                    *)
(***************************************************************************)
C26_CreateBudgetAllOrNothing ==
    (bproc[Uploader].pc = "idle" /\ budgetsBefore.failed) => budgets = budgetsBefore.rows

(***************************************************************************)
(* SpecSend: the Chat page's handleSend and the runs of gemini-chat it     *)
(* starts.  chatPage.runs[r] is the message of the page that run r of the  *)
(* function serves.                                                        *)
(***************************************************************************)
MaxSends == 2

\* handleSend up to its first await: the guard, setSending(true), the message shown
HandleSend ==
    /\ ~chatPage.sending
    /\ chatPage.sent < MaxSends
    /\ chatPage' = [chatPage EXCEPT !.sending = TRUE, !.pc = "invoke", !.sent = @ + 1]
    /\ UNCHANGED <<chat, chatHistory>>

\* a request reaches the function, whose run begins with the completion call
Requested(from, to, ok) ==
    /\ chatPage.pc = from
    /\ ChatCall(ok)
    /\ chatPage' = [chatPage EXCEPT !.pc = to, !.runs = Append(@, chatPage.sent)]

\* supabase.functions.invoke('gemini-chat', ..)
SendInvoke(ok) == Requested("invoke", "invoked", ok)

\* fetch(`${VITE_SUPABASE_URL}/functions/v1/gemini-chat`, ..)
SendFetch(ok) == Requested("fetch", "fetched", ok)

\* the run of the last request failed
RunFailed == chat.ended[Len(chat.ended)].failed

\* the invocation has resolved: an error is thrown and caught, and finally
\* setSending(false); otherwise handleSend goes on to the fetch
SendInvoked ==
    /\ chatPage.pc = "invoked"
    /\ chat.pc = "idle"
    /\ chatPage' = IF RunFailed THEN [chatPage EXCEPT !.pc = "idle", !.sending = FALSE]
                   ELSE [chatPage EXCEPT !.pc = "fetch"]
    /\ UNCHANGED <<chat, chatHistory>>

\* the stream of the fetch was read to its end, or failed: the model message or
\* the error message is shown; finally setSending(false)
SendFetched ==
    /\ chatPage.pc = "fetched"
    /\ chat.pc = "idle"
    /\ chatPage' = [chatPage EXCEPT !.pc = "idle", !.sending = FALSE]
    /\ UNCHANGED <<chat, chatHistory>>

InitSend == InitChat

SendFrame == UNCHANGED <<budgetVars, pipeVars, txStore, result, recentAlerts,
                         listeners, dispatch, calls, removed, chatPipe, chatCalls,
                         extRuns, documents, budgetsBefore, manager, provider, txPage>>

NextSend ==
    \/ HandleSend /\ SendFrame
    \/ \E ok \in BOOLEAN : SendInvoke(ok) /\ SendFrame
    \/ SendInvoked /\ SendFrame
    \/ \E ok \in BOOLEAN : SendFetch(ok) /\ SendFrame
    \/ SendFetched /\ SendFrame
    \/ \E ok \in BOOLEAN : ChatSaveUser(ok) /\ UNCHANGED chatPage /\ SendFrame
    \/ \E outcome \in {"text", "blank", "done", "error"} :
          ChatRead(outcome) /\ UNCHANGED chatPage /\ SendFrame
    \/ \E ok \in BOOLEAN : ChatSaveModel(ok) /\ UNCHANGED chatPage /\ SendFrame

SpecSend == InitSend /\ [][NextSend]_vars

(***************************************************************************)
(* C27: each message sent from the chat page starts one chat run: the      *)
(* function is invoked once for it, and chat history gains no more than    *)
(* one user row and one model row for it; no send starts while one is in   *)
(* progress.                                                               *)
(***************************************************************************)
RunsOf(m) == {r \in DOMAIN chatPage.runs : chatPage.runs[r] = m}

RowsOf(m, role) == {i \in DOMAIN chatHistory :
                       chatHistory[i].run \in RunsOf(m) /\ chatHistory[i].role = role}

C27_OneRunPerMessage ==
    /\ \A m \in 1..chatPage.sent :
          /\ Cardinality(RunsOf(m)) <= 1
          /\ Cardinality(RowsOf(m, "user")) <= 1
          /\ Cardinality(RowsOf(m, "model")) <= 1
    /\ chatPage.pc # "idle" => chatPage.sending

(***************************************************************************)
(* SpecManager: one RealtimeProcessingManager and the calls made on it.    *)
(* supabase.channel(topic) of a topic that has a channel either creates a  *)
(* second channel or returns the first, whose second subscribe() throws,   *)
(* depending on the version of the client library: each call takes either *)
(* outcome (reuse).                                                        *)
(***************************************************************************)
MaxCalls == 4

\* pipeline.subscribe() where it returns: a new channel, kept in this.channel
Subscribed(m, ps) ==
    [m EXCEPT !.channel = [p \in PipelineNames |-> IF p \in ps THEN m.calls + 1 ELSE @[p]],
              !.open = [p \in PipelineNames |-> IF p \in ps THEN @[p] \cup {m.calls + 1} ELSE @[p]]]

\* the places in startAll's order of the pipelines whose subscribe() throws
Throwing(m, reuse) ==
    {i \in DOMAIN Pipelines : reuse /\ Pipelines[i] \in m.exists /\ m.open[Pipelines[i]] # {}}

\* the pipelines startAll subscribes before a subscribe() throws, if one does
Reached(m, reuse) ==
    {Pipelines[i] : i \in {j \in DOMAIN Pipelines :
                              Pipelines[j] \in m.exists /\ \A k \in Throwing(m, reuse) : j < k}}

Called(m, op) == [m EXCEPT !.last = op, !.calls = @ + 1]

startAll(reuse) ==
    /\ manager.calls < MaxCalls
    /\ manager' = Called(Subscribed(manager, Reached(manager, reuse)), "startAll")

\* pipeline.unsubscribe() of every pipeline: removeChannel(this.channel)
stopAll ==
    /\ manager.calls < MaxCalls
    /\ manager' = Called([manager EXCEPT !.open = [p \in PipelineNames |->
                             IF p \in manager.exists THEN @[p] \ {manager.channel[p]} ELSE @[p]]],
                         "stopAll")

\* getNotificationPipeline / getAnalyticsPipeline: the first call makes the
\* pipeline and subscribes it
getPipeline(p) ==
    /\ manager.calls < MaxCalls
    /\ manager' = Called(IF p \in manager.exists THEN manager
                         ELSE Subscribed([manager EXCEPT !.exists = @ \cup {p}], {p}),
                         "get")

getNotificationPipeline == getPipeline("notification")

getAnalyticsPipeline == getPipeline("analytics")

InitManager == InitChat

ManagerFrame == UNCHANGED <<budgetVars, pipeVars, txStore, result, recentAlerts,
                            listeners, dispatch, calls, removed, chat, chatHistory,
                            chatPipe, chatCalls, extRuns, documents, budgetsBefore,
                            chatPage, provider, txPage>>

NextManager ==
    \/ \E reuse \in BOOLEAN : startAll(reuse) /\ ManagerFrame
    \/ stopAll /\ ManagerFrame
    \/ getNotificationPipeline /\ ManagerFrame
    \/ getAnalyticsPipeline /\ ManagerFrame

SpecManager == InitManager /\ [][NextManager]_vars

(***************************************************************************)
(* C28: after any sequence of startAll, stopAll, getNotificationPipeline   *)
(* and getAnalyticsPipeline calls each pipeline of the manager has at most *)
(* one open channel, and after stopAll none of their channels is open.     *)
(***************************************************************************)
C28_ManagerChannels ==
    /\ \A p \in PipelineNames : Cardinality(manager.open[p]) <= 1
    /\ manager.last = "stopAll" => \A p \in PipelineNames : manager.open[p] = {}

(***************************************************************************)
(* SpecProvider: RealtimeProvider over sign-ins, sign-outs and changes of  *)
(* the user, with the transactions its managers' pipelines receive.  A     *)
(* signal is kept as the owner of the transaction it was derived from.     *)
(***************************************************************************)
MaxUserChanges == 3
MaxReceived == 2

\* the effect's cleanup (stopAll of the manager it started), then the effect for
\* the new user: a new manager, its callbacks, startAll
UserChanged(u) ==
    [provider EXCEPT !.user = u, !.subscribed = u, !.changes = @ + 1]

\* the user becomes u: a sign-in, or a change from another user to u
ProviderSignIn(u) ==
    /\ provider.changes < MaxUserChanges
    /\ provider.user # u
    /\ provider' = UserChanged(u)

\* the user becomes null: the cleanup, then the branch that stops the manager
\* the state holds and empties both lists
ProviderSignOut ==
    /\ provider.changes < MaxUserChanges
    /\ provider.user # ""
    /\ provider' = [UserChanged("") EXCEPT !.recentAnomalies = <<>>, !.recentAlerts = <<>>]

\* the subscribed pipeline receives a transaction of its owner; its evaluation
\* is suspended at the store queries
ProviderIncoming ==
    /\ provider.subscribed # ""
    /\ provider.received < MaxReceived
    /\ provider' = [provider EXCEPT !.received = @ + 1,
                       !.pending = @ \cup {[n |-> provider.received + 1, owner |-> provider.subscribed]}]

\* an evaluation resumes and ends; it calls onAnomaly / onBudgetAlert of the
\* manager it belongs to, or finds nothing to signal.  The alerts are of one
\* category: the new one replaces the one kept
ProviderEvaluated(e, signal) ==
    /\ e \in provider.pending
    /\ provider' = [provider EXCEPT
           !.pending = @ \ {e},
           !.recentAnomalies = IF signal = "anomaly" THEN Slice(<<e.owner>> \o @, MaxRecent) ELSE @,
           !.recentAlerts = IF signal = "budgetAlert" THEN Slice(<<e.owner>>, MaxRecent) ELSE @]

InitProvider == InitChat

ProviderFrame == UNCHANGED <<budgetVars, pipeVars, txStore, result, recentAlerts,
                             listeners, dispatch, calls, removed, chat, chatHistory,
                             chatPipe, chatCalls, extRuns, documents, budgetsBefore,
                             chatPage, manager, txPage>>

NextProvider ==
    \/ \E u \in Users : ProviderSignIn(u) /\ ProviderFrame
    \/ ProviderSignOut /\ ProviderFrame
    \/ ProviderIncoming /\ ProviderFrame
    \/ \E e \in provider.pending, signal \in {"anomaly", "budgetAlert", "none"} :
          ProviderEvaluated(e, signal) /\ ProviderFrame

SpecProvider == InitProvider /\ [][NextProvider]_vars

(***************************************************************************)
(* C29: recentAlerts and recentAnomalies of RealtimeProvider hold only     *)
(* signals produced for the user signed in: after a change of the user no  *)
(* signal of the user before is present, and none is added later.          *)
(***************************************************************************)
OwnersOf(list) == {list[i] : i \in DOMAIN list}

C29_SignalsOfCurrentUser ==
    OwnersOf(provider.recentAnomalies) \cup OwnersOf(provider.recentAlerts) \subseteq {provider.user}

(***************************************************************************)
(* SpecPage: the Transactions page of one owner: the initial load, rows    *)
(* written to the store, and the pipeline handing them to the page's       *)
(* listener.  A row is [id, date], the date as getTime() reads it.         *)
(***************************************************************************)
MaxRows == 3
Days == {1, 2}

RECURSIVE Sorted(_)
\* next.sort((a, b) => getTime(b) - getTime(a)): a stable sort, newest first
Before(x, sorted) == {i \in DOMAIN sorted : sorted[i].date <= x.date}

Placed(x, sorted, k) == SubSeq(sorted, 1, k - 1) \o <<x>> \o SubSeq(sorted, k, Len(sorted))

Inserted(x, sorted) ==
    IF Before(x, sorted) = {} THEN Append(sorted, x)
    ELSE Placed(x, sorted, CHOOSE i \in Before(x, sorted) : \A j \in Before(x, sorted) : i <= j)

Sorted(list) == IF list = <<>> THEN <<>> ELSE Inserted(Head(list), Sorted(Tail(list)))

\* prev.filter((t) => t.id !== transaction.id)
Others(prev, transaction) == SelectSeq(prev, LAMBDA t : t.id # transaction.id)

\* the listener's update of the list
Listened(prev, transaction) == Sorted(<<transaction>> \o Others(prev, transaction))

\* a row is written to the owner's transactions; the change feed carries it
PageInsert(day) ==
    /\ Len(txPage.stored) < MaxRows
    /\ txPage' = [txPage EXCEPT
           !.stored = Append(@, [id |-> Len(txPage.stored) + 1, date |-> day]),
           !.feed = Append(@, [id |-> Len(txPage.stored) + 1, date |-> day])]

\* getTransactions' query runs in the store: the owner's rows, newest first
PageQuery ==
    /\ txPage.load = "sent"
    /\ txPage' = [txPage EXCEPT !.load = "read", !.data = Sorted(txPage.stored)]

\* the load resolves: setTransactions(data); an error is logged and the list is
\* left as it is
PageLoaded(ok) ==
    /\ txPage.load = "read"
    /\ txPage' = IF ok THEN [txPage EXCEPT !.load = "done", !.transactions = txPage.data]
                 ELSE [txPage EXCEPT !.load = "failed"]

\* the pipeline hands the next transaction to the page's listener
PageDelivered ==
    /\ txPage.feed # <<>>
    /\ txPage' = [txPage EXCEPT
           !.feed = Tail(@),
           !.delivered = @ \cup {Head(txPage.feed).id},
           !.transactions = Listened(@, Head(txPage.feed))]

InitPage == InitChat

PageFrame == UNCHANGED <<budgetVars, pipeVars, txStore, result, recentAlerts,
                         listeners, dispatch, calls, removed, chat, chatHistory,
                         chatPipe, chatCalls, extRuns, documents, budgetsBefore,
                         chatPage, manager, provider>>

NextPage ==
    \/ \E day \in Days : PageInsert(day) /\ PageFrame
    \/ PageQuery /\ PageFrame
    \/ \E ok \in BOOLEAN : PageLoaded(ok) /\ PageFrame
    \/ PageDelivered /\ PageFrame

SpecPage == InitPage /\ [][NextPage]_vars

(***************************************************************************)
(* C30: once the initial load has resolved, the list of the Transactions   *)
(* page holds every delivered transaction, no two entries share an id, and *)
(* the list is sorted by transaction date, newest first.                   *)
(***************************************************************************)
Shown == {txPage.transactions[i].id : i \in DOMAIN txPage.transactions}

C30_ListComplete ==
    /\ txPage.load = "done" => txPage.delivered \subseteq Shown
    /\ \A i, j \in DOMAIN txPage.transactions :
          /\ txPage.transactions[i].id = txPage.transactions[j].id => i = j
          /\ i < j => txPage.transactions[i].date >= txPage.transactions[j].date

====
